---- MODULE Spec2Model ----
(***************************************************************************)
(* CineCrib backend (src/backend/server.js, src/backend/db.sql): the       *)
(* POST /api/v1/recommendations handler, its dynamically assembled SQL     *)
(* filter (count query and page query) and the content tables it reads.    *)
(*                                                                         *)
(* Conventions.  A nullable INTEGER / NUMERIC column is a set: {} is SQL   *)
(* NULL and {v} the value v.  A nullable TEXT column holds NULL (below)    *)
(* for SQL NULL.  imdb_rating NUMERIC(3,1) and the request's min_rating    *)
(* are kept in tenths (8.8 is 88); rotten_tomatoes_score is the integer    *)
(* of the column.  A request body is a function whose DOMAIN holds the     *)
(* fields the caller sent; a field that is not there is JS undefined.      *)
(***************************************************************************)
EXTENDS Integers, Sequences, FiniteSets, TLC, Bags

VARIABLES
    content,                        \* table content: uid -> columns
    content_genres,                 \* table content_genres: {<<content_uid, genre_uid>>}
    content_streaming_availability, \* table content_streaming_availability: rows
    writes,                         \* number of writes made to the content tables
    pc,                             \* where the recommendations handler stands
    body,                           \* req.body of the request being handled
    total_results,                  \* the handler's total_results once the count query ran
    counted,                        \* what the count query saw: [at |-> writes, uids |-> content uids]
    log,                            \* the responses the caller has received for its current search
    users,                          \* table users: rows [uid, email]
    user_settings,                  \* table user_settings: user_uid -> the row's values
    user_default_streaming_services, \* junction tables: {<<user_uid, uid>>}
    user_default_genres,
    user_excluded_genres,
    user_excluded_streaming_services,
    watchlist_entries,              \* table watchlist_entries: rows [uid, user_uid, content_uid]
    request,                        \* per request slot: the request being handled and where its handler stands
    answer,                         \* per request slot: the response to its last request
    requests,                       \* number of requests received by the account handlers
    client                          \* per handler run: clients acquired from the pool and releases of them

\* The tables and the handler state of signup, preferences, watchlist and
\* content lookup.
accounts == <<users, user_settings, user_default_streaming_services, user_default_genres,
              user_excluded_genres, user_excluded_streaming_services, watchlist_entries,
              request, answer, requests>>

\* The state of the recommendations handler.
recommending == <<writes, pc, body, total_results, counted, log>>

vars == <<content, content_genres, content_streaming_availability, writes,
          pc, body, total_results, counted, log, accounts, client>>

store == <<content, content_genres, content_streaming_availability>>

NULL == "NULL"

----------------------------------------------------------------------------
(* Bounds of the model *)

NumContent == 2     \* rows of table content
MaxLog == 2         \* responses a caller keeps of one search
MaxWrites == 1      \* writes to the content tables in one behaviour

(* Program constants *)

DefaultMinReleaseYear == 1900
CurrentYear == 2026
DefaultPage == 1
DefaultPageSize == 20

ContentUids == 1..NumContent
GenreUids == {"g1", "g2"}
ServiceUids == {"s1", "s2"}

----------------------------------------------------------------------------
(* The content tables *)

Availability(s) == [service_uid |-> s, watch_link |-> "link_" \o s, region |-> "GLOBAL"]

BaseColumns ==
    [content_type |-> "movie", release_year |-> {2000}, duration_minutes |-> {90},
     number_of_seasons |-> {}, imdb_rating |-> {70}, rotten_tomatoes_score |-> {80},
     parental_rating |-> "PG-13"]

Item(columns, genres, services) ==
    [columns |-> columns, genres |-> genres, services |-> services]

\* Items that differ in their genre rows and availability rows only.
RelationItems ==
    << Item(BaseColumns, {}, {}),
       Item(BaseColumns, {}, {"s1"}),
       Item(BaseColumns, {}, {"s1", "s2"}),
       Item(BaseColumns, {"g1"}, {}),
       Item(BaseColumns, {"g1"}, {"s1"}),
       Item(BaseColumns, {"g1"}, {"s1", "s2"}),
       Item(BaseColumns, {"g1", "g2"}, {}),
       Item(BaseColumns, {"g1", "g2"}, {"s1"}),
       Item(BaseColumns, {"g1", "g2"}, {"s1", "s2"}) >>

\* Items that differ in the columns of table content.
ColumnItems ==
    << Item(BaseColumns, {"g1"}, {"s1"}),
       Item([BaseColumns EXCEPT !.duration_minutes = {45}], {"g1"}, {"s1"}),
       Item([BaseColumns EXCEPT !.duration_minutes = {150}], {"g1"}, {"s1"}),
       Item([BaseColumns EXCEPT !.content_type = "tv_show", !.duration_minutes = {},
                                !.number_of_seasons = {1}, !.imdb_rating = {90}],
            {"g1"}, {"s1"}),
       Item([BaseColumns EXCEPT !.content_type = "tv_show", !.duration_minutes = {},
                                !.number_of_seasons = {}], {"g1"}, {"s1"}),
       Item([BaseColumns EXCEPT !.release_year = {}], {"g1"}, {"s1"}),
       Item([BaseColumns EXCEPT !.release_year = {1995}], {"g1"}, {"s1"}),
       Item([BaseColumns EXCEPT !.imdb_rating = {}, !.rotten_tomatoes_score = {}],
            {"g1"}, {"s1"}),
       Item([BaseColumns EXCEPT !.imdb_rating = {88}], {"g1"}, {"s1"}),
       Item([BaseColumns EXCEPT !.imdb_rating = {60}, !.rotten_tomatoes_score = {9}],
            {"g1"}, {"s1"}),
       Item([BaseColumns EXCEPT !.parental_rating = "R"], {"g1"}, {"s1"}),
       Item([BaseColumns EXCEPT !.parental_rating = NULL], {"g1"}, {"s1"}),
       Item([BaseColumns EXCEPT !.imdb_rating = {88}, !.rotten_tomatoes_score = {7}],
            {"g1"}, {"s1"}) >>

\* Items at and around the bounds of the duration categories, with the field
\* of their kind absent, and with the field of the other kind present.
DurationItems ==
    << Item([BaseColumns EXCEPT !.duration_minutes = {}], {"g1"}, {"s1"}),
       Item([BaseColumns EXCEPT !.duration_minutes = {59}], {"g1"}, {"s1"}),
       Item([BaseColumns EXCEPT !.duration_minutes = {60}], {"g1"}, {"s1"}),
       Item([BaseColumns EXCEPT !.duration_minutes = {120}], {"g1"}, {"s1"}),
       Item([BaseColumns EXCEPT !.duration_minutes = {121}], {"g1"}, {"s1"}),
       Item([BaseColumns EXCEPT !.duration_minutes = {}, !.number_of_seasons = {1}],
            {"g1"}, {"s1"}),
       Item([BaseColumns EXCEPT !.content_type = "tv_show", !.duration_minutes = {},
                                !.number_of_seasons = {}], {"g1"}, {"s1"}),
       Item([BaseColumns EXCEPT !.content_type = "tv_show", !.duration_minutes = {},
                                !.number_of_seasons = {1}], {"g1"}, {"s1"}),
       Item([BaseColumns EXCEPT !.content_type = "tv_show", !.duration_minutes = {},
                                !.number_of_seasons = {2}], {"g1"}, {"s1"}),
       Item([BaseColumns EXCEPT !.content_type = "tv_show", !.duration_minutes = {},
                                !.number_of_seasons = {4}], {"g1"}, {"s1"}),
       Item([BaseColumns EXCEPT !.content_type = "tv_show", !.duration_minutes = {},
                                !.number_of_seasons = {5}], {"g1"}, {"s1"}),
       Item([BaseColumns EXCEPT !.content_type = "tv_show", !.duration_minutes = {45},
                                !.number_of_seasons = {}], {"g1"}, {"s1"}),
       Item([BaseColumns EXCEPT !.duration_minutes = {0}], {"g1"}, {"s1"}),
       Item([BaseColumns EXCEPT !.content_type = "tv_show", !.duration_minutes = {},
                                !.number_of_seasons = {0}], {"g1"}, {"s1"}) >>

\* The ways to fill table content with items of one list: item k of the list
\* for row u, in the list's order (the handler never compares uids).
Fillings(items) ==
    {f \in [ContentUids -> 1..Len(items)] :
        \A u, v \in ContentUids : u <= v => f[u] <= f[v]}

StoreOf(items, f) ==
    [content |-> [u \in ContentUids |-> items[f[u]].columns],
     content_genres |-> {p \in ContentUids \X GenreUids : p[2] \in items[f[p[1]]].genres},
     content_streaming_availability |->
        UNION {{[content_uid |-> u] @@ Availability(s) : s \in items[f[u]].services} :
               u \in ContentUids}]

Stores(items) == {StoreOf(items, f) : f \in Fillings(items)}

----------------------------------------------------------------------------
(* The request: destructuring of req.body with its defaults *)

Field(b, name, default) == IF name \in DOMAIN b THEN b[name] ELSE default

min_release_year(b) == Field(b, "min_release_year", DefaultMinReleaseYear)
max_release_year(b) == Field(b, "max_release_year", CurrentYear)
preferred_duration_category(b) == Field(b, "preferred_duration_category", "any")
min_rating(b) == Field(b, "min_rating", 0)
preferred_content_type(b) == Field(b, "preferred_content_type", "both")
parental_rating_filter_json(b) == Field(b, "parental_rating_filter_json", "[]")
excluded_genre_uids(b) == Field(b, "excluded_genre_uids", <<>>)
excluded_service_uids(b) == Field(b, "excluded_service_uids", <<>>)
page(b) == Field(b, "page", DefaultPage)
page_size(b) == Field(b, "page_size", DefaultPageSize)

\* `xs && xs.length > 0` for a field without a default: undefined is falsy.
HasItems(b, name) == name \in DOMAIN b /\ Len(b[name]) > 0

\* An offset that takes page for a zero-based index.
offsetOfZeroBasedPage(b) == page(b) * page_size(b)

offset(b) == (page(b) - 1) * page_size(b)

\* JSON.parse on the strings the model sends: an array of strings, or a throw.
JSONParse(s) ==
    CASE s = "[]" -> [threw |-> FALSE, value |-> <<>>]
      [] s = "[ ]" -> [threw |-> FALSE, value |-> <<>>]
      [] s = "[\"PG-13\"]" -> [threw |-> FALSE, value |-> <<"PG-13">>]
      [] s = "[\"PG-13\",\"R\"]" -> [threw |-> FALSE, value |-> <<"PG-13", "R">>]
      [] OTHER -> [threw |-> TRUE, value |-> <<>>]

----------------------------------------------------------------------------
(* Assembly of queryParams and whereClauses.  A clause keeps, instead of    *)
(* its SQL text, its kind and the numbers k of its placeholders $k.         *)

NoFilters == [queryParams |-> <<>>, whereClauses |-> <<>>, threw |-> FALSE]

\* queryParams.push(...values); whereClauses.push(clause)
Pushed(st, values, clause) ==
    [st EXCEPT !.queryParams = @ \o values, !.whereClauses = Append(@, clause)]

\* queryParams.length once `values` are pushed
LengthWith(st, values) == Len(st.queryParams) + Len(values)

\* Placeholders computed as queryParams.length - n + i.
ListPlaceholdersWithoutPlusOne(n, length) == [i \in 1..n |-> length - n + i - 1]

\* $${queryParams.length - n + 1 + i} for i = 0..n-1
ListPlaceholders(n, length) == [i \in 1..n |-> length - n + i]

ContentTypeFilter(st, b) ==
    IF preferred_content_type(b) # "both"
    THEN LET values == <<preferred_content_type(b)>>
             length == LengthWith(st, values)
         IN  Pushed(st, values, [kind |-> "content_type", at |-> <<length>>])
    ELSE st

ReleaseYearFilter(st, b) ==
    IF min_release_year(b) # 0 /\ max_release_year(b) # 0
    THEN LET values == <<min_release_year(b), max_release_year(b)>>
             length == LengthWith(st, values)
         IN  Pushed(st, values, [kind |-> "release_year", at |-> <<length - 1, length>>])
    ELSE st

\* MinRatingFilter that binds the default 0.0 to the IMDb comparison.
MinRatingFilterBindsDefault(st, b) ==
    IF min_rating(b) > 0
    THEN LET values == <<0, min_rating(b)>>
             length == LengthWith(st, values)
         IN  Pushed(st, values, [kind |-> "min_rating", at |-> <<length - 1, length>>])
    ELSE st

MinRatingFilter(st, b) ==
    IF min_rating(b) > 0
    THEN LET values == <<min_rating(b), min_rating(b)>>
             length == LengthWith(st, values)
         IN  Pushed(st, values, [kind |-> "min_rating", at |-> <<length - 1, length>>])
    ELSE st

ParentalRatingFilter(st, b) ==
    IF parental_rating_filter_json(b) # "" /\ parental_rating_filter_json(b) # "[]"
    THEN LET parsed == JSONParse(parental_rating_filter_json(b))
             parentalRatings == parsed.value
             length == LengthWith(st, parentalRatings)
         IN  IF parsed.threw THEN [st EXCEPT !.threw = TRUE]
             ELSE IF Len(parentalRatings) > 0
                  THEN Pushed(st, parentalRatings,
                              [kind |-> "parental_rating",
                               at |-> ListPlaceholders(Len(parentalRatings), length)])
                  ELSE st
    ELSE st

\* The switch without its break statements: every category falls through to
\* the last case.
DurationFilterFallsThrough(st, b) ==
    IF preferred_duration_category(b) \in {"short", "medium", "long"}
    THEN Pushed(st, <<>>, [kind |-> "long", at |-> <<>>])
    ELSE st

DurationFilter(st, b) ==
    IF preferred_duration_category(b) \in {"short", "medium", "long"}
    THEN Pushed(st, <<>>, [kind |-> preferred_duration_category(b), at |-> <<>>])
    ELSE st

\* GenreFilter with the bug of testing `genre_uids.length > 1`.
GenreFilterSkipsSingle(st, b) ==
    IF HasItems(b, "genre_uids") /\ Len(b.genre_uids) > 1
    THEN LET length == LengthWith(st, b.genre_uids) IN
         Pushed(st, b.genre_uids,
                [kind |-> "genre_in", at |-> ListPlaceholders(Len(b.genre_uids), length)])
    ELSE st

GenreFilter(st, b) ==
    IF HasItems(b, "genre_uids")
    THEN LET length == LengthWith(st, b.genre_uids) IN
         Pushed(st, b.genre_uids,
                [kind |-> "genre_in", at |-> ListPlaceholders(Len(b.genre_uids), length)])
    ELSE st

\* ExcludedGenreFilter that gives way to an inclusion filter on genres.
ExcludedGenreFilterUnlessIncluded(st, b) ==
    IF Len(excluded_genre_uids(b)) > 0 /\ ~HasItems(b, "genre_uids")
    THEN LET values == excluded_genre_uids(b)
             length == LengthWith(st, values)
         IN  Pushed(st, values,
                    [kind |-> "genre_not_in", at |-> ListPlaceholders(Len(values), length)])
    ELSE st

ExcludedGenreFilter(st, b) ==
    IF Len(excluded_genre_uids(b)) > 0
    THEN LET values == excluded_genre_uids(b)
             length == LengthWith(st, values)
         IN  Pushed(st, values,
                    [kind |-> "genre_not_in", at |-> ListPlaceholders(Len(values), length)])
    ELSE st

ServiceFilter(st, b) ==
    IF HasItems(b, "streaming_service_uids")
    THEN LET values == b.streaming_service_uids
             length == LengthWith(st, values)
         IN  Pushed(st, values,
                    [kind |-> "service_in", at |-> ListPlaceholders(Len(values), length)])
    ELSE st

ExcludedServiceFilter(st, b) ==
    IF Len(excluded_service_uids(b)) > 0
    THEN LET values == excluded_service_uids(b)
             length == LengthWith(st, values)
         IN  Pushed(st, values,
                    [kind |-> "service_not_in", at |-> ListPlaceholders(Len(values), length)])
    ELSE st

\* The statements of the handler from `const queryParams = []` to the last push,
\* in their order.  A throw of JSON.parse leaves the try block at once.
Filters(b) ==
    LET s4 == ParentalRatingFilter(
                  MinRatingFilter(
                      ReleaseYearFilter(
                          ContentTypeFilter(NoFilters, b), b), b), b)
    IN  IF s4.threw THEN s4
        ELSE ExcludedServiceFilter(
                 ServiceFilter(
                     ExcludedGenreFilter(
                         GenreFilter(
                             DurationFilter(s4, b), b), b), b), b)

----------------------------------------------------------------------------
(* What PostgreSQL computes for the two queries on the current tables *)

GenresOf(u) == {cg[2] : cg \in {x \in content_genres : x[1] = u}}
AvailabilityOf(u) == {a \in content_streaming_availability : a.content_uid = u}

\* FROM content c LEFT JOIN content_genres cg LEFT JOIN genres g
\*      LEFT JOIN content_streaming_availability csa LEFT JOIN streaming_services ss:
\* per content row the product of its genre rows and its availability rows,
\* a side without rows giving one row of NULLs.
JoinRows ==
    UNION {
        {[c |-> u, g |-> g, ss |-> a.service_uid, watch_link |-> a.watch_link] :
            g \in (IF GenresOf(u) = {} THEN {NULL} ELSE GenresOf(u)),
            a \in (IF AvailabilityOf(u) = {}
                   THEN {[service_uid |-> NULL, watch_link |-> NULL]}
                   ELSE AvailabilityOf(u))} :
        u \in DOMAIN content}

\* NOT IN that is TRUE on a NULL x, as in `x IS NULL OR x NOT IN (...)`.
NotInOrNull(x, at, params) == \A i \in DOMAIN at : x # params[at[i]]

\* x IN ($k, ...) is TRUE, x NOT IN ($k, ...) is TRUE: a NULL x makes both NULL.
In(x, at, params) == x # NULL /\ \E i \in DOMAIN at : x = params[at[i]]
NotIn(x, at, params) == x # NULL /\ \A i \in DOMAIN at : x # params[at[i]]

\* Holds with a medium category that leaves out its bounds 60 and 120.
HoldsWithOpenMedium(clause, r, params) ==
    LET c == content[r.c]
        at == clause.at
        movie == c.content_type = "movie"
        tv_show == c.content_type = "tv_show"
    IN  CASE clause.kind = "content_type" -> c.content_type = params[at[1]]
          [] clause.kind = "release_year" ->
                \E y \in c.release_year : params[at[1]] <= y /\ y <= params[at[2]]
          [] clause.kind = "min_rating" ->
                \/ \E x \in c.imdb_rating : x >= params[at[1]]
                \/ \E x \in c.rotten_tomatoes_score : x * 10 >= params[at[2]]
          [] clause.kind = "parental_rating" -> In(c.parental_rating, at, params)
          [] clause.kind = "short" ->
                \/ movie /\ \E d \in c.duration_minutes : d < 60
                \/ tv_show /\ \E n \in c.number_of_seasons : n = 1
          [] clause.kind = "medium" ->
                \/ movie /\ \E d \in c.duration_minutes : 60 < d /\ d < 120
                \/ tv_show /\ \E n \in c.number_of_seasons : 2 <= n /\ n <= 4
          [] clause.kind = "long" ->
                \/ movie /\ \E d \in c.duration_minutes : d > 120
                \/ tv_show /\ \E n \in c.number_of_seasons : n > 4
          [] clause.kind = "genre_in" -> In(r.g, at, params)
          [] clause.kind = "genre_not_in" -> NotIn(r.g, at, params)
          [] clause.kind = "service_in" -> In(r.ss, at, params)
          [] clause.kind = "service_not_in" -> NotIn(r.ss, at, params)

\* Whether a clause of whereClauses evaluates to TRUE (not FALSE, not NULL) on
\* a joined row, its placeholders bound to params.
Holds(clause, r, params) ==
    LET c == content[r.c]
        at == clause.at
        movie == c.content_type = "movie"
        tv_show == c.content_type = "tv_show"
    IN  CASE clause.kind = "content_type" -> c.content_type = params[at[1]]
          [] clause.kind = "release_year" ->
                \E y \in c.release_year : params[at[1]] <= y /\ y <= params[at[2]]
          [] clause.kind = "min_rating" ->
                \/ \E x \in c.imdb_rating : x >= params[at[1]]
                \/ \E x \in c.rotten_tomatoes_score : x * 10 >= params[at[2]]
          [] clause.kind = "parental_rating" -> In(c.parental_rating, at, params)
          [] clause.kind = "short" ->
                \/ movie /\ \E d \in c.duration_minutes : d < 60
                \/ tv_show /\ \E n \in c.number_of_seasons : n = 1
          [] clause.kind = "medium" ->
                \/ movie /\ \E d \in c.duration_minutes : 60 <= d /\ d <= 120
                \/ tv_show /\ \E n \in c.number_of_seasons : 2 <= n /\ n <= 4
          [] clause.kind = "long" ->
                \/ movie /\ \E d \in c.duration_minutes : d > 120
                \/ tv_show /\ \E n \in c.number_of_seasons : n > 4
          [] clause.kind = "genre_in" -> In(r.g, at, params)
          [] clause.kind = "genre_not_in" -> NotIn(r.g, at, params)
          [] clause.kind = "service_in" -> In(r.ss, at, params)
          [] clause.kind = "service_not_in" -> NotIn(r.ss, at, params)

\* A WHERE whose clauses are joined with OR.
WhereAnyClause(whereClauses, params) ==
    {r \in JoinRows :
        \/ whereClauses = <<>>
        \/ \E i \in DOMAIN whereClauses : Holds(whereClauses[i], r, params)}

\* WHERE whereClauses.join(' AND '): the joined rows on which every clause is TRUE.
Where(whereClauses, params) ==
    {r \in JoinRows : \A i \in DOMAIN whereClauses : Holds(whereClauses[i], r, params)}

\* CountWhere with the bug of a count query assembled before the exclusion
\* predicates were pushed.
CountWhereWithoutExclusions(b) ==
    SelectSeq(Filters(b).whereClauses,
              LAMBDA clause : clause.kind \notin {"genre_not_in", "service_not_in"})

\* The WHERE of countQuery and the queryParams it is executed with.
CountWhere(b) == Filters(b).whereClauses
CountParams(b) == Filters(b).queryParams

\* The WHERE of query and the queryParams it is executed with, page_size and
\* offset pushed after the count query.
PageWhere(b) == Filters(b).whereClauses
PageParams(b) == Filters(b).queryParams \o <<page_size(b), offset(b)>>

\* SELECT COUNT(DISTINCT c.uid): the content uids the count query counts.
CountedUids(b) == {r.c : r \in Where(CountWhere(b), CountParams(b))}

\* The values an aggregate of a group is fed, one per row of the group that
\* passes its FILTER (WHERE ... IS NOT NULL): a bag, a value as many times as
\* rows carry it.
GenreObjects(rows) ==
    LET fed == {r \in rows : r.g # NULL}
    IN  [v \in {r.g : r \in fed} |-> Cardinality({r \in fed : r.g = v})]

ServiceObjects(rows) ==
    LET fed == {r \in rows : r.ss # NULL}
        object(r) == [service_uid |-> r.ss, watch_link |-> r.watch_link]
    IN  [v \in {object(r) : r \in fed} |-> Cardinality({r \in fed : object(r) = v})]

\* json_agg without DISTINCT: one array element per row fed.
JsonAggAll(fed) == fed

\* json_agg(DISTINCT ...): every value fed, once.  (An array is kept as the
\* bag of its elements; a NULL aggregate becomes [] in the response.)
JsonAggDistinct(fed) == SetToBag(BagToSet(fed))

\* Grouped whose aggregates are fed every joined row of a matching item, as
\* with a sub-select per item.
GroupedWithAllRowsOfItem(b) ==
    LET rows == Where(PageWhere(b), PageParams(b)) IN
    {[uid |-> u,
      genres |-> JsonAggDistinct(GenreObjects({x \in JoinRows : x.c = u})),
      available_on_services |->
          JsonAggDistinct(ServiceObjects({x \in JoinRows : x.c = u}))] :
     u \in {r.c : r \in rows}}

\* GROUP BY c.uid with the two json_agg(DISTINCT ...) FILTER (WHERE ... IS NOT NULL).
Grouped(b) ==
    LET rows == Where(PageWhere(b), PageParams(b)) IN
    {[uid |-> u,
      genres |-> JsonAggDistinct(GenreObjects({x \in rows : x.c = u})),
      available_on_services |->
          JsonAggDistinct(ServiceObjects({x \in rows : x.c = u}))] :
     u \in {r.c : r \in rows}}

\* ORDER BY c.rotten_tomatoes_score DESC, c.imdb_rating DESC: in PostgreSQL a
\* NULL sorts before every value under DESC.
Above(x, y) == (x = {} /\ y # {}) \/ \E v \in x, w \in y : v > w

SortsBefore(u, v) ==
    \/ Above(content[u].rotten_tomatoes_score, content[v].rotten_tomatoes_score)
    \/ /\ content[u].rotten_tomatoes_score = content[v].rotten_tomatoes_score
       /\ Above(content[u].imdb_rating, content[v].imdb_rating)

\* The orders in which the grouped rows may leave the sort: rows equal in both
\* sort keys come in an order the query does not fix.
Orderings(groups) ==
    {s \in [1..Cardinality(groups) -> groups] :
        /\ \A i, j \in DOMAIN s : i # j => s[i] # s[j]
        /\ \A i, j \in DOMAIN s : i < j => ~SortsBefore(s[j].uid, s[i].uid)}

\* LIMIT $n+1 OFFSET $n+2, bound to the last two of the page query's parameters.
Limit(b) == PageParams(b)[Len(Filters(b).queryParams) + 1]
Offset(b) == PageParams(b)[Len(Filters(b).queryParams) + 2]

\* PostgreSQL rejects the page query when LIMIT or OFFSET is negative.
PageQueryFails(b) == Limit(b) < 0 \/ Offset(b) < 0

Min(x, y) == IF x <= y THEN x ELSE y

\* A slice that falls back to the last rows when the offset lies beyond them.
PageOfClampedToLastRows(sorted, b) ==
    IF Offset(b) >= Len(sorted)
    THEN SubSeq(sorted, Len(sorted) - Min(Limit(b), Len(sorted)) + 1, Len(sorted))
    ELSE SubSeq(sorted, Offset(b) + 1, Min(Offset(b) + Limit(b), Len(sorted)))

PageOf(sorted, b) == SubSeq(sorted, Offset(b) + 1, Min(Offset(b) + Limit(b), Len(sorted)))

----------------------------------------------------------------------------
(* The SQL text of the two queries, as the handler's template literals build it *)

RECURSIVE Joined(_, _)
\* texts.join(separator)
Joined(texts, separator) ==
    IF texts = <<>> THEN ""
    ELSE IF Len(texts) = 1 THEN texts[1]
    ELSE texts[1] \o separator \o Joined(Tail(texts), separator)

\* `$${k}`
Placeholder(k) == "$" \o ToString(k)

PlaceholderList(at) == Joined([i \in DOMAIN at |-> Placeholder(at[i])], ",")

\* The string pushed to whereClauses.
ClauseText(clause) ==
    LET at == clause.at
    IN  CASE clause.kind = "content_type" -> "c.content_type = " \o Placeholder(at[1])
          [] clause.kind = "release_year" ->
                "c.release_year BETWEEN " \o Placeholder(at[1]) \o " AND " \o Placeholder(at[2])
          [] clause.kind = "min_rating" ->
                "(c.imdb_rating >= " \o Placeholder(at[1])
                \o " OR c.rotten_tomatoes_score >= " \o Placeholder(at[2]) \o ")"
          [] clause.kind = "parental_rating" ->
                "c.parental_rating IN (" \o PlaceholderList(at) \o ")"
          [] clause.kind = "short" ->
                "((c.content_type = 'movie' AND c.duration_minutes < 60) OR "
                \o "(c.content_type = 'tv_show' AND c.number_of_seasons = 1))"
          [] clause.kind = "medium" ->
                "((c.content_type = 'movie' AND c.duration_minutes BETWEEN 60 AND 120) OR "
                \o "(c.content_type = 'tv_show' AND c.number_of_seasons BETWEEN 2 AND 4))"
          [] clause.kind = "long" ->
                "((c.content_type = 'movie' AND c.duration_minutes > 120) OR "
                \o "(c.content_type = 'tv_show' AND c.number_of_seasons > 4))"
          [] clause.kind = "genre_in" -> "g.uid IN (" \o PlaceholderList(at) \o ")"
          [] clause.kind = "genre_not_in" -> "g.uid NOT IN (" \o PlaceholderList(at) \o ")"
          [] clause.kind = "service_in" -> "ss.uid IN (" \o PlaceholderList(at) \o ")"
          [] clause.kind = "service_not_in" -> "ss.uid NOT IN (" \o PlaceholderList(at) \o ")"

\* whereClauses.join(' AND ')
WhereText(whereClauses) ==
    Joined([i \in DOMAIN whereClauses |-> ClauseText(whereClauses[i])], " AND ")

FromText ==
    "FROM content c LEFT JOIN content_genres cg ON c.uid = cg.content_uid "
    \o "LEFT JOIN genres g ON cg.genre_uid = g.uid "
    \o "LEFT JOIN content_streaming_availability csa ON c.uid = csa.content_uid "
    \o "LEFT JOIN streaming_services ss ON csa.service_uid = ss.uid"

\* countQuery
CountQueryText(b) ==
    "SELECT COUNT(DISTINCT c.uid) " \o FromText
    \o (IF CountWhere(b) # <<>> THEN " WHERE " \o WhereText(CountWhere(b)) ELSE "")

\* The SELECT list of query is abbreviated; it has no placeholder.
SelectText == "SELECT c.uid, ..., json_agg(DISTINCT ...) AS genres, json_agg(DISTINCT ...) AS available_on_services "

\* A page query with page_size and offset written into its text.
PageQueryTextWithInlinedPage(b) ==
    SelectText \o FromText
    \o (IF PageWhere(b) # <<>> THEN " WHERE " \o WhereText(PageWhere(b)) ELSE "")
    \o " GROUP BY c.uid ORDER BY c.rotten_tomatoes_score DESC, c.imdb_rating DESC"
    \o " LIMIT " \o ToString(page_size(b)) \o " OFFSET " \o ToString(offset(b)) \o ";"

\* query
PageQueryText(b) ==
    SelectText \o FromText
    \o (IF PageWhere(b) # <<>> THEN " WHERE " \o WhereText(PageWhere(b)) ELSE "")
    \o " GROUP BY c.uid ORDER BY c.rotten_tomatoes_score DESC, c.imdb_rating DESC"
    \o " LIMIT " \o Placeholder(Len(Filters(b).queryParams) + 1)
    \o " OFFSET " \o Placeholder(Len(Filters(b).queryParams) + 2) \o ";"

----------------------------------------------------------------------------
(* The requests the model sends *)

EmptyBody == [x \in {} |-> x]

GenreChoices ==
    { EmptyBody,
      [genre_uids |-> <<>>],
      [genre_uids |-> <<"g1">>],
      [genre_uids |-> <<"g2">>],
      [excluded_genre_uids |-> <<"g1">>],
      [excluded_genre_uids |-> <<"g2">>],
      [genre_uids |-> <<"g1">>, excluded_genre_uids |-> <<"g1">>],
      [genre_uids |-> <<"g1", "g2">>, excluded_genre_uids |-> <<"g2">>] }

ServiceChoices ==
    { EmptyBody,
      [streaming_service_uids |-> <<"s1">>],
      [excluded_service_uids |-> <<"s1">>],
      [excluded_service_uids |-> <<"s2">>],
      [streaming_service_uids |-> <<"s2">>, excluded_service_uids |-> <<"s1">>] }

ColumnChoices ==
    { [preferred_content_type |-> "movie"],
      [preferred_content_type |-> "tv_show"],
      [min_release_year |-> 0],
      [min_release_year |-> 0, max_release_year |-> 1999],
      [min_release_year |-> 1996],
      [max_release_year |-> 1999],
      [min_release_year |-> 2000, max_release_year |-> 1999],
      [min_rating |-> 85],
      [min_rating |-> 80],
      [min_rating |-> 100],
      [min_rating |-> 0],
      [parental_rating_filter_json |-> "[\"PG-13\"]"],
      [parental_rating_filter_json |-> "[\"PG-13\",\"R\"]"],
      [parental_rating_filter_json |-> "[ ]"],
      [parental_rating_filter_json |-> "PG-13"],
      [preferred_duration_category |-> "short"],
      [preferred_duration_category |-> "medium"],
      [preferred_duration_category |-> "long"],
      [preferred_duration_category |-> "tiny"],
      [preferred_content_type |-> "movie", min_rating |-> 85, genre_uids |-> <<"g1">>],
      [preferred_content_type |-> "movie", min_rating |-> 80, genre_uids |-> <<"g1">>] }

PageChoices ==
    { [page |-> 1, page_size |-> 1],
      [page |-> 2, page_size |-> 1],
      [page |-> 3, page_size |-> 1],
      [page |-> 1, page_size |-> 2],
      [page |-> 2, page_size |-> 2],
      [page |-> 0, page_size |-> 1],
      [page |-> 0, page_size |-> 0],
      [page |-> 1, page_size |-> 0],
      [page |-> 1, page_size |-> -1],
      [page |-> 1, page_size |-> 101],
      [page_size |-> 100, page |-> 2] }

Bodies ==
    {g @@ s : g \in GenreChoices, s \in ServiceChoices}
    \cup ColumnChoices
    \cup {f @@ p : f \in {EmptyBody, [min_rating |-> 85],
                          [min_release_year |-> 2000, max_release_year |-> 1999]},
                   p \in PageChoices}

----------------------------------------------------------------------------
(* The handler of POST /api/v1/recommendations, one step per await *)

NotCounted == [at |-> 0, uids |-> {}]

\* No client was acquired from the pool.
NoClient == [acquired |-> 0, released |-> 0]

\* What the caller compares two requests of one search by: everything but the page.
Search(b) == [name \in DOMAIN b \ {"page"} |-> b[name]]

\* A catch block that answers an empty result instead of an error.
ErrorResponseWithEmptyResult(b, queries, failed) ==
    [status |-> 500, success |-> FALSE, body |-> b, queries |-> queries,
     failed |-> failed, recommendations |-> <<>>, total_results |-> 0]

\* The 500 answer of the catch block: success false and a message, nothing of
\* the result.  (queries: how many queries the handler had sent; failed: the
\* step that threw.)
ErrorResponse(b, queries, failed) ==
    [status |-> 500, success |-> FALSE, body |-> b, queries |-> queries,
     failed |-> failed]

\* The count query is rejected by the database: $k of "rotten_tomatoes_score
\* >= $k" is compared with an INTEGER column, so it is an integer parameter
\* and a min_rating with a fractional part is not valid input for it.
CountQueryFails(b) == min_rating(b) > 0 /\ min_rating(b) % 10 # 0

\* res.status(...).json(...), then finally: the handler is done with the request.
Respond(response) ==
    /\ client' = [client EXCEPT !["recommendations"] =
                      [acquired |-> 1, released |-> @.released + 1]]
    /\ log' = Append(log, response)
    /\ pc' = "idle"
    /\ body' = EmptyBody
    /\ total_results' = 0
    /\ counted' = NotCounted

\* A request arrives: req.body is destructured and the handler awaits pool.connect().
\* The caller keeps the earlier responses of the same search when it said so
\* (keep) and has room left.
Receive(b, keep) ==
    /\ pc = "idle"
    /\ pc' = "connect"
    /\ body' = b
    /\ log' = IF /\ keep
                 /\ log # <<>>
                 /\ Len(log) < MaxLog
                 /\ Search(log[1].body) = Search(b)
              THEN log
              ELSE <<>>
    /\ client' = [client EXCEPT !["recommendations"] = NoClient]
    /\ UNCHANGED <<store, writes, total_results, counted, accounts>>

\* pool.connect() resolved: offset, query, queryParams and whereClauses are
\* computed and the count query is sent; a throw of JSON.parse is answered 500.
Connect ==
    /\ pc = "connect"
    /\ IF Filters(body).threw
       THEN Respond(ErrorResponse(body, 0, "JSON.parse"))
       ELSE /\ pc' = "count"
            /\ client' = [client EXCEPT !["recommendations"] =
                              [acquired |-> 1, released |-> 0]]
            /\ UNCHANGED <<body, total_results, counted, log>>
    /\ UNCHANGED <<store, writes, accounts>>

\* The count query runs on the tables as they are now; the handler reads
\* total_results, pushes page_size and offset and sends the page query.  A
\* count query the database rejects is answered 500.
CountQuery ==
    /\ pc = "count"
    /\ IF CountQueryFails(body)
       THEN Respond(ErrorResponse(body, 1, "count"))
       ELSE /\ total_results' = Cardinality(CountedUids(body))
            /\ counted' = [at |-> writes, uids |-> CountedUids(body)]
            /\ pc' = "page"
            /\ UNCHANGED <<body, log, client>>
    /\ UNCHANGED <<store, writes, accounts>>

\* The page query runs on the tables as they are now and the handler answers:
\* 200 with the page, or 500 when the query failed.
PageQuery ==
    /\ pc = "page"
    /\ IF PageQueryFails(body)
       THEN Respond(ErrorResponse(body, 2, "page"))
       ELSE \E sorted \in Orderings(Grouped(body)) :
                Respond([status |-> 200, success |-> TRUE, body |-> body, queries |-> 2,
                         failed |-> "none",
                         recommendations |-> PageOf(sorted, body),
                         total_results |-> total_results,
                         page |-> page(body), page_size |-> page_size(body),
                         counted |-> counted,
                         grouped |-> [at |-> writes,
                                      uids |-> {x.uid : x \in Grouped(body)}]])
    /\ UNCHANGED <<store, writes, accounts>>

\* The storage layer fails under the query the handler awaits (connection
\* lost, timeout): client.query rejects and the catch block answers 500.
StorageError ==
    /\ pc \in {"count", "page"}
    /\ Respond(ErrorResponse(body, IF pc = "count" THEN 1 ELSE 2, pc))
    /\ UNCHANGED <<store, writes, accounts>>

\* A re-sync job or an admin edit rewrites one content item: its columns, its
\* genre rows and its availability rows.
Resync(u, item) ==
    /\ writes < MaxWrites
    /\ writes' = writes + 1
    /\ content' = [content EXCEPT ![u] = item.columns]
    /\ content_genres' = {cg \in content_genres : cg[1] # u}
                         \cup {<<u, g>> : g \in item.genres}
    /\ content_streaming_availability' =
           {a \in content_streaming_availability : a.content_uid # u}
           \cup {[content_uid |-> u] @@ Availability(s) : s \in item.services}
    /\ <<content', content_genres', content_streaming_availability'>> # store
    /\ UNCHANGED <<pc, body, total_results, counted, log, accounts, client>>

----------------------------------------------------------------------------
(* The account handlers: signup, preferences, watchlist, content lookup.   *)
(* Node runs the handlers of concurrent requests interleaved at their       *)
(* awaits; a requester is one in-flight request at a time.  An action is    *)
(* the handler's code from one await to the next, with the statement the    *)
(* await waited for executed by the database at that moment.  A password   *)
(* is kept as its length.                                                   *)

NumRequesters == 2
MaxRequests == 3

Requesters == {"r" \o ToString(n) : n \in 1..NumRequesters}

Idle == [handler |-> "none", pc |-> "idle"]
NoAnswer == [handler |-> "none", status |-> 0]

\* generate_uid(): a uid no earlier request was given.
generate_uid(n) == "uid" \o ToString(n)

\* The values signup gives the user_settings row of a new user.
DefaultSettings ==
    [default_mood_uid |-> NULL, min_release_year |-> DefaultMinReleaseYear, max_release_year |-> CurrentYear,
     preferred_duration_category |-> "any", min_rating |-> 0,
     preferred_content_type |-> "both", parental_rating_filter_json |-> "[]"]

MinPasswordLength == 8

\* A handler starts on a request: it has no client yet.
Started(r, run) ==
    /\ request[r] = Idle
    /\ requests < MaxRequests
    /\ requests' = requests + 1
    /\ request' = [request EXCEPT ![r] = run]
    /\ answer' = [answer EXCEPT ![r] = NoAnswer]
    /\ client' = [client EXCEPT ![r] = NoClient]

\* return res.status(...).json(...) before pool.connect(): no client is held.
Rejected(r, handler, status) ==
    /\ request[r] = Idle
    /\ requests < MaxRequests
    /\ requests' = requests + 1
    /\ answer' = [answer EXCEPT ![r] = [handler |-> handler, status |-> status]]
    /\ client' = [client EXCEPT ![r] = NoClient]
    /\ UNCHANGED request

\* const client = await pool.connect() resolved.
Acquired(r) == client' = [client EXCEPT ![r].acquired = @ + 1]

\* The handler goes on to its next await.
Goes(r, to) ==
    /\ request' = [request EXCEPT ![r].pc = to]
    /\ UNCHANGED <<answer, requests>>

\* res.status(...).json(...) inside try or catch, then finally client.release().
Answers(r, status) ==
    /\ answer' = [answer EXCEPT ![r] = [handler |-> request[r].handler, status |-> status]]
    /\ request' = [request EXCEPT ![r] = Idle]
    /\ client' = [client EXCEPT ![r].released = @ + 1]
    /\ UNCHANGED requests

accountTables == <<users, user_settings, user_default_streaming_services,
                   user_default_genres, user_excluded_genres,
                   user_excluded_streaming_services, watchlist_entries>>

preferenceTables == <<user_settings, user_default_streaming_services, user_default_genres,
                      user_excluded_genres, user_excluded_streaming_services>>

\* POST /api/v1/auth/signup arrives: 400 without email or password or with a
\* password shorter than 8, else the handler awaits pool.connect().
SignupReceive(r, email, password) ==
    /\ IF email = "" \/ password = 0 \/ password < MinPasswordLength
       THEN Rejected(r, "signup", 400)
       ELSE Started(r, [handler |-> "signup", pc |-> "connect", email |-> email,
                        uid |-> generate_uid(requests + 1)])
    /\ UNCHANGED <<store, recommending, accountTables>>

\* pool.connect() resolved; SELECT uid FROM users WHERE email = $1 is sent.
SignupConnect(r) ==
    /\ request[r].handler = "signup" /\ request[r].pc = "connect"
    /\ Acquired(r)
    /\ Goes(r, "select")
    /\ UNCHANGED <<store, recommending, accountTables>>

\* The SELECT ran: 409 when the email is taken; else the password is hashed
\* and INSERT INTO users is sent.
SignupSelect(r) ==
    /\ request[r].handler = "signup" /\ request[r].pc = "select"
    /\ IF \E u \in users : u.email = request[r].email
       THEN Answers(r, 409)
       ELSE Goes(r, "insert_user") /\ UNCHANGED client
    /\ UNCHANGED <<store, recommending, accountTables>>

\* INSERT INTO users ran: email is UNIQUE, a taken email throws (500); else
\* INSERT INTO user_settings is sent.
SignupInsertUser(r) ==
    /\ request[r].handler = "signup" /\ request[r].pc = "insert_user"
    /\ IF \E u \in users : u.email = request[r].email
       THEN Answers(r, 500) /\ UNCHANGED users
       ELSE /\ users' = users \cup {[uid |-> request[r].uid, email |-> request[r].email]}
            /\ Goes(r, "insert_settings")
            /\ UNCHANGED client
    /\ UNCHANGED <<store, recommending, preferenceTables, watchlist_entries>>

\* INSERT INTO user_settings ran; the token is made and 201 is answered.
SignupInsertSettings(r) ==
    /\ request[r].handler = "signup" /\ request[r].pc = "insert_settings"
    /\ user_settings' = [u \in DOMAIN user_settings \cup {request[r].uid} |->
                            IF u = request[r].uid THEN DefaultSettings ELSE user_settings[u]]
    /\ Answers(r, 201)
    /\ UNCHANGED <<store, recommending, users, user_default_streaming_services,
                   user_default_genres, user_excluded_genres,
                   user_excluded_streaming_services, watchlist_entries>>

\* The accounts whose bearer tokens the requests carry; a token is kept as
\* the uid in its payload, "" is a request without Authorization header.
RegisteredUids == {"u1", "u2"}
Tokens == RegisteredUids \cup {""}

\* req.user ? req.user.uid : null -- authenticateToken alone sets req.user.
UserUidOf(req) == IF "user" \in DOMAIN req THEN req.user ELSE NULL

\* The content_uid values of requests: 0 is a request without one, the last
\* one is no row of content.
RequestedContentUids == 0..(NumContent + 1)

\* POST /api/v1/users/me/watchlist arrives: authenticateToken answers 401
\* without token, the handler 400 without content_uid, else it awaits
\* pool.connect().
WatchlistReceive(r, token, content_uid) ==
    /\ IF token = "" THEN Rejected(r, "watchlist", 401)
       ELSE IF content_uid = 0 THEN Rejected(r, "watchlist", 400)
       ELSE Started(r, [handler |-> "watchlist", pc |-> "connect", user |-> token,
                        content_uid |-> content_uid])
    /\ UNCHANGED <<store, recommending, accountTables>>

\* pool.connect() resolved; SELECT uid FROM content WHERE uid = $1 is sent.
WatchlistConnect(r) ==
    /\ request[r].handler = "watchlist" /\ request[r].pc = "connect"
    /\ Acquired(r)
    /\ Goes(r, "select_content")
    /\ UNCHANGED <<store, recommending, accountTables>>

\* The content SELECT ran: 404 without a row; else the SELECT on
\* watchlist_entries for the user and the content is sent.
WatchlistSelectContent(r) ==
    /\ request[r].handler = "watchlist" /\ request[r].pc = "select_content"
    /\ IF request[r].content_uid \notin DOMAIN content
       THEN Answers(r, 404)
       ELSE Goes(r, "select_entry") /\ UNCHANGED client
    /\ UNCHANGED <<store, recommending, accountTables>>

\* The rows of watchlist_entries of a user and a content item.
EntriesOf(user_uid, content_uid) ==
    {e \in watchlist_entries : e.user_uid = user_uid /\ e.content_uid = content_uid}

\* The watchlist SELECT ran: 409 with a row; else the INSERT is sent.
WatchlistSelectEntry(r) ==
    /\ request[r].handler = "watchlist" /\ request[r].pc = "select_entry"
    /\ IF EntriesOf(UserUidOf(request[r]), request[r].content_uid) # {}
       THEN Answers(r, 409)
       ELSE Goes(r, "insert_entry") /\ UNCHANGED client
    /\ UNCHANGED <<store, recommending, accountTables>>

\* INSERT INTO watchlist_entries ran: UNIQUE (user_uid, content_uid) makes it
\* throw (500) when the pair has a row by now; else the row is there and 201
\* is answered.
WatchlistInsert(r) ==
    /\ request[r].handler = "watchlist" /\ request[r].pc = "insert_entry"
    /\ IF EntriesOf(UserUidOf(request[r]), request[r].content_uid) # {}
       THEN Answers(r, 500) /\ UNCHANGED watchlist_entries
       ELSE /\ watchlist_entries' = watchlist_entries \cup
                    {[uid |-> generate_uid(Cardinality(watchlist_entries) + 1),
                      user_uid |-> UserUidOf(request[r]),
                      content_uid |-> request[r].content_uid]}
            /\ Answers(r, 201)
    /\ UNCHANGED <<store, recommending, users, preferenceTables>>

\* GET /api/v1/content/:content_uid arrives: the route has no middleware,
\* the handler awaits pool.connect().
ContentReceive(r, token, content_uid) ==
    /\ Started(r, [handler |-> "content", pc |-> "connect", authorization |-> token,
                   content_uid |-> content_uid])
    /\ UNCHANGED <<store, recommending, accountTables>>

\* pool.connect() resolved; the SELECT of the item is sent.
ContentConnect(r) ==
    /\ request[r].handler = "content" /\ request[r].pc = "connect"
    /\ Acquired(r)
    /\ Goes(r, "content")
    /\ UNCHANGED <<store, recommending, accountTables>>

\* formattedContent: is_on_watchlist is selected and copied if (user_uid).
formattedContent(req) ==
    IF UserUidOf(req) # NULL
    THEN [uid |-> req.content_uid,
          is_on_watchlist |-> EntriesOf(UserUidOf(req), req.content_uid) # {}]
    ELSE [uid |-> req.content_uid]

\* The SELECT ran: 404 without a row, else 200 with the formatted item.
ContentQuery(r) ==
    /\ request[r].handler = "content" /\ request[r].pc = "content"
    /\ IF request[r].content_uid \notin DOMAIN content
       THEN Answers(r, 404)
       ELSE /\ answer' = [answer EXCEPT ![r] =
                    [handler |-> "content", status |-> 200,
                     authorization |-> request[r].authorization,
                     content |-> formattedContent(request[r])]]
            /\ request' = [request EXCEPT ![r] = Idle]
            /\ client' = [client EXCEPT ![r].released = @ + 1]
            /\ UNCHANGED requests
    /\ UNCHANGED <<store, recommending, accountTables>>

\* The preferences update.  An element of a uid list of the body is a text.
\* The handler puts it between quotes into the VALUES list of an INSERT, so
\* the text is kept as what the SQL parser reads between those quotes:
\* <<x>> is the text x; <<x, u, y>> is the text x'), ('u', 'y which closes
\* the tuple and opens another one.
Text(element) ==
    IF Len(element) = 3
    THEN element[1] \o "'), ('" \o element[2] \o "', '" \o element[3]
    ELSE element[1]

\* selected_service_uids.map(s_uid => `('${user_uid}', '${s_uid}')`).join(',')
ValuesText(user_uid, list) ==
    Joined([i \in 1..Len(list) |-> "('" \o user_uid \o "', '" \o Text(list[i]) \o "')"], ",")

\* The (user_uid, uid) tuples the parser reads from the text of one element
\* spliced in.
TuplesOf(user_uid, element) ==
    IF Len(element) = 3
    THEN <<<<user_uid, element[1]>>, <<element[2], element[3]>>>>
    ELSE <<<<user_uid, Text(element)>>>>

\* The tuples of INSERT INTO ... VALUES ${values}, in the statement's order.
RECURSIVE ValuesTuples(_, _)
ValuesTuples(user_uid, list) ==
    IF list = <<>> THEN <<>>
    ELSE TuplesOf(user_uid, Head(list)) \o ValuesTuples(user_uid, Tail(list))

\* The four junction tables in the handler's order, each with the body's
\* list for it and the uids of the table its second column references.
JunctionTables ==
    << [table |-> "user_default_streaming_services", list |-> "selected_service_uids",
        references |-> ServiceUids],
       [table |-> "user_default_genres", list |-> "selected_genre_uids",
        references |-> GenreUids],
       [table |-> "user_excluded_genres", list |-> "excluded_genre_uids",
        references |-> GenreUids],
       [table |-> "user_excluded_streaming_services", list |-> "excluded_service_uids",
        references |-> ServiceUids] >>

\* The committed rows of user_settings and the junction tables.
Committed ==
    [user_settings |-> user_settings,
     user_default_streaming_services |-> user_default_streaming_services,
     user_default_genres |-> user_default_genres,
     user_excluded_genres |-> user_excluded_genres,
     user_excluded_streaming_services |-> user_excluded_streaming_services]

\* The values of the UPDATE user_settings: the body's fields, defaults for
\* the ones it has not.
SettingsOf(b) ==
    [default_mood_uid |-> Field(b, "default_mood_uid", NULL),
     min_release_year |-> min_release_year(b), max_release_year |-> max_release_year(b),
     preferred_duration_category |-> preferred_duration_category(b),
     min_rating |-> min_rating(b),
     preferred_content_type |-> Field(b, "preferred_content_type", "both"),
     parental_rating_filter_json |-> Field(b, "parental_rating_filter_json", "[]")]

\* UPDATE user_settings SET ... WHERE user_uid = $8
UpdateSettings(settings, user_uid, b) ==
    [u \in DOMAIN settings |-> IF u = user_uid THEN SettingsOf(b) ELSE settings[u]]

\* The INSERT of tuples into a junction table fails: a tuple breaks the
\* primary key or a foreign key.
InsertFails(rows, tuples, references) ==
    \/ \E i \in 1..Len(tuples) : tuples[i] \in rows
    \/ \E i, j \in 1..Len(tuples) : i < j /\ tuples[i] = tuples[j]
    \/ \E i \in 1..Len(tuples) :
          tuples[i][1] \notin {u.uid : u \in users} \/ tuples[i][2] \notin references

\* DELETE FROM <table> WHERE user_uid = $1
DeleteOf(rows, user_uid) == {row \in rows : row[1] # user_uid}

InTransaction(req) == req.pc \in {"replace", "commit", "rollback"}

\* PUT /api/v1/users/me/preferences arrives: authenticateToken answers 401
\* without token, else the handler awaits pool.connect().
PreferencesReceive(r, token, b) ==
    /\ IF token = "" THEN Rejected(r, "preferences", 401)
       ELSE Started(r, [handler |-> "preferences", pc |-> "connect", user |-> token,
                        body |-> b])
    /\ UNCHANGED <<store, recommending, accountTables>>

\* pool.connect() resolved; BEGIN is sent.
PreferencesConnect(r) ==
    /\ request[r].handler = "preferences" /\ request[r].pc = "connect"
    /\ Acquired(r)
    /\ Goes(r, "begin")
    /\ UNCHANGED <<store, recommending, accountTables>>

\* BEGIN and the UPDATE of user_settings ran.  The transaction works on its
\* own rows, tx, until COMMIT.  The UPDATE locks the user's row; the model
\* runs the transactions of all users one at a time.
PreferencesBegin(r) ==
    /\ request[r].handler = "preferences" /\ request[r].pc = "begin"
    /\ \A q \in Requesters : ~InTransaction(request[q])
    /\ request' = [request EXCEPT ![r] =
            [handler |-> "preferences", pc |-> "replace", user |-> @.user, body |-> @.body,
             step |-> 1,
             tx |-> [Committed EXCEPT !.user_settings =
                         UpdateSettings(@, request[r].user, request[r].body)]]]
    /\ UNCHANGED <<answer, requests, client>>
    /\ UNCHANGED <<store, recommending, accountTables>>

\* Step k of the four: DELETE the user's rows of the table, then, with a
\* non-empty list, INSERT the VALUES text.  A failing INSERT throws into the
\* catch block, where ROLLBACK is sent; after the last table COMMIT is sent.
PreferencesReplace(r) ==
    /\ request[r].handler = "preferences" /\ request[r].pc = "replace"
    /\ LET req == request[r]
           junction == JunctionTables[req.step]
           list == Field(req.body, junction.list, <<>>)
           deleted == DeleteOf(req.tx[junction.table], req.user)
           tuples == ValuesTuples(req.user, list)
       IN  IF InsertFails(deleted, tuples, junction.references)
           THEN request' = [request EXCEPT ![r].pc = "rollback"]
           ELSE request' = [request EXCEPT
                    ![r].tx[junction.table] = deleted \cup {tuples[i] : i \in 1..Len(tuples)},
                    ![r].step = IF @ = Len(JunctionTables) THEN @ ELSE @ + 1,
                    ![r].pc = IF req.step = Len(JunctionTables) THEN "commit" ELSE "replace"]
    /\ UNCHANGED <<answer, requests, client>>
    /\ UNCHANGED <<store, recommending, accountTables>>

\* COMMIT ran: the rows of the transaction are the committed ones; 200.
PreferencesCommit(r) ==
    /\ request[r].handler = "preferences" /\ request[r].pc = "commit"
    /\ user_settings' = request[r].tx.user_settings
    /\ user_default_streaming_services' = request[r].tx.user_default_streaming_services
    /\ user_default_genres' = request[r].tx.user_default_genres
    /\ user_excluded_genres' = request[r].tx.user_excluded_genres
    /\ user_excluded_streaming_services' = request[r].tx.user_excluded_streaming_services
    /\ Answers(r, 200)
    /\ UNCHANGED <<store, recommending, users, watchlist_entries>>

\* The storage layer fails under a statement of the transaction: it throws
\* into the catch block, where ROLLBACK is sent.
PreferencesStorageError(r) ==
    /\ request[r].handler = "preferences"
    /\ request[r].pc \in {"begin", "replace", "commit"}
    /\ request' = [request EXCEPT ![r].pc = "rollback"]
    /\ UNCHANGED <<answer, requests, client>>
    /\ UNCHANGED <<store, recommending, accountTables>>

\* ROLLBACK ran: the rows of the transaction are dropped; 500.
PreferencesRollback(r) ==
    /\ request[r].handler = "preferences" /\ request[r].pc = "rollback"
    /\ Answers(r, 500)
    /\ UNCHANGED <<store, recommending, accountTables>>

\* The same without the finally block: the throw leaves the handler at once.
PreferencesRollbackFailsWithoutFinally(r) ==
    /\ request[r].handler = "preferences" /\ request[r].pc = "rollback"
    /\ request' = [request EXCEPT ![r] = Idle]
    /\ UNCHANGED <<answer, requests, client>>
    /\ UNCHANGED <<store, recommending, accountTables>>

\* ROLLBACK itself fails (the connection is gone): await client.query throws
\* inside the catch block, no response is sent, finally client.release()
\* runs; the database drops the rows of the transaction with the connection.
PreferencesRollbackFails(r) ==
    /\ request[r].handler = "preferences" /\ request[r].pc = "rollback"
    /\ request' = [request EXCEPT ![r] = Idle]
    /\ client' = [client EXCEPT ![r].released = @ + 1]
    /\ UNCHANGED <<answer, requests>>
    /\ UNCHANGED <<store, recommending, accountTables>>

\* The pc values at which a handler awaits client.query.
Querying == {"select", "insert_user", "insert_settings", "select_content",
             "select_entry", "insert_entry", "content"}

\* The awaited INSERT breaks a UNIQUE constraint.
BreaksUnique(req) ==
    \/ req.pc = "insert_user" /\ \E u \in users : u.email = req.email
    \/ req.pc = "insert_entry" /\ EntriesOf(UserUidOf(req), req.content_uid) # {}

\* The storage layer fails under the query a handler without transaction
\* awaits, a query that would have run: client.query rejects, the catch
\* block answers 500.
AccountStorageError(r) ==
    /\ request[r].handler \in {"signup", "watchlist", "content"}
    /\ request[r].pc \in Querying
    /\ ~BreaksUnique(request[r])
    /\ Answers(r, 500)
    /\ UNCHANGED <<store, recommending, accountTables>>

----------------------------------------------------------------------------
(* Specifications *)

\* No account request is being handled and none was answered.
InitRequesters ==
    /\ request = [r \in Requesters |-> Idle]
    /\ answer = [r \in Requesters |-> NoAnswer]
    /\ requests = 0
    /\ client = [h \in Requesters \cup {"recommendations"} |-> NoClient]

\* The account tables are empty.
InitAccounts ==
    /\ InitRequesters
    /\ users = {}
    /\ user_settings = [u \in {} |-> DefaultSettings]
    /\ user_default_streaming_services = {}
    /\ user_default_genres = {}
    /\ user_excluded_genres = {}
    /\ user_excluded_streaming_services = {}
    /\ watchlist_entries = {}

\* No recommendations request was received.
InitRecommending ==
    /\ writes = 0
    /\ pc = "idle"
    /\ body = EmptyBody
    /\ total_results = 0
    /\ counted = NotCounted
    /\ log = <<>>

InitHandler == InitAccounts /\ InitRecommending

InitStore(stores) ==
    \E s \in stores :
        /\ content = s.content
        /\ content_genres = s.content_genres
        /\ content_streaming_availability = s.content_streaming_availability

\* Single requests on a content store that does not change.
Init == InitHandler /\ InitStore(Stores(RelationItems) \cup Stores(ColumnItems))

Next ==
    \/ \E b \in Bodies : Receive(b, FALSE)
    \/ Connect
    \/ CountQuery
    \/ PageQuery
    \/ StorageError

Spec == Init /\ [][Next]_vars

\* Single requests on one store: the text of the queries and the parameters
\* they are sent with do not depend on the tables.
InitText == InitHandler /\ InitStore(Stores(<<ColumnItems[1]>>))

SpecText == InitText /\ [][Next]_vars

DurationBodies ==
    { EmptyBody,
      [preferred_duration_category |-> "any"],
      [preferred_duration_category |-> "short"],
      [preferred_duration_category |-> "medium"],
      [preferred_duration_category |-> "long"],
      [preferred_duration_category |-> "short", preferred_content_type |-> "tv_show"],
      [preferred_duration_category |-> "long", preferred_content_type |-> "movie"] }

\* Single requests with a duration category on stores of DurationItems.
InitDuration == InitHandler /\ InitStore(Stores(DurationItems))

NextDuration ==
    \/ \E b \in DurationBodies : Receive(b, FALSE)
    \/ Connect
    \/ CountQuery
    \/ PageQuery
    \/ StorageError

SpecDuration == InitDuration /\ [][NextDuration]_vars

\* Items that differ in their two ratings; a store may hold one of them twice.
RatedItems == <<ColumnItems[1], ColumnItems[8], ColumnItems[9], ColumnItems[10]>>

PagedBodies ==
    {f @@ p : f \in {EmptyBody, [min_rating |-> 80]},
              p \in {[page |-> n, page_size |-> k] : n \in 1..3, k \in 1..2}}

\* A caller paging through one search, or repeating a request, on a content
\* store that does not change.
InitPages == InitHandler /\ InitStore(Stores(RatedItems))

NextPages ==
    \/ \E b \in PagedBodies : Receive(b, TRUE)
    \/ Connect
    \/ CountQuery
    \/ PageQuery
    \/ StorageError

SpecPages == InitPages /\ [][NextPages]_vars

\* Signups, concurrent ones included, on empty account tables.
SignupEmails == {"", "a@cinecrib.test", "b@cinecrib.test"}
PasswordLengths == {0, 7, 8}

InitSignup == InitHandler /\ InitStore(Stores(<<ColumnItems[1]>>))

NextSignup ==
    \/ \E r \in Requesters, email \in SignupEmails, password \in PasswordLengths :
           SignupReceive(r, email, password)
    \/ \E r \in Requesters : SignupConnect(r)
    \/ \E r \in Requesters : SignupSelect(r)
    \/ \E r \in Requesters : SignupInsertUser(r)
    \/ \E r \in Requesters : SignupInsertSettings(r)
    \/ \E r \in Requesters : AccountStorageError(r)

SpecSignup == InitSignup /\ [][NextSignup]_vars

\* The accounts the watchlist and preferences requests are made for.
RegisteredUsers == {[uid |-> u, email |-> u \o "@cinecrib.test"] : u \in RegisteredUids}

InitRegistered ==
    /\ InitRequesters
    /\ users = RegisteredUsers
    /\ user_settings = [u \in RegisteredUids |-> DefaultSettings]
    /\ user_default_streaming_services = {}
    /\ user_default_genres = {}
    /\ user_excluded_genres = {}
    /\ user_excluded_streaming_services = {}
    /\ watchlist_entries = {}

\* Watchlist additions and content lookups, concurrent ones included.
InitWatchlist ==
    InitRegistered /\ InitRecommending /\ InitStore(Stores(<<ColumnItems[1]>>))

NextWatchlist ==
    \/ \E r \in Requesters, token \in Tokens, content_uid \in RequestedContentUids :
           WatchlistReceive(r, token, content_uid)
    \/ \E r \in Requesters : WatchlistConnect(r)
    \/ \E r \in Requesters : WatchlistSelectContent(r)
    \/ \E r \in Requesters : WatchlistSelectEntry(r)
    \/ \E r \in Requesters : WatchlistInsert(r)
    \/ \E r \in Requesters, token \in Tokens, content_uid \in RequestedContentUids \ {0} :
           ContentReceive(r, token, content_uid)
    \/ \E r \in Requesters : ContentConnect(r)
    \/ \E r \in Requesters : ContentQuery(r)
    \/ \E r \in Requesters : AccountStorageError(r)

SpecWatchlist == InitWatchlist /\ [][NextWatchlist]_vars

\* Bodies of preferences updates: plain lists, an empty body, a duplicate
\* uid, an unknown uid, and an element that closes its tuple.
PreferenceBodies ==
    { EmptyBody,
      [min_rating |-> 70, selected_service_uids |-> <<<<"s1">>>>,
       selected_genre_uids |-> <<<<"g1">>, <<"g2">>>>],
      [excluded_genre_uids |-> <<<<"g2">>>>, excluded_service_uids |-> <<<<"s2">>>>],
      [preferred_content_type |-> "movie", selected_service_uids |-> <<<<"s1">>, <<"s1">>>>],
      [min_rating |-> 70, excluded_genre_uids |-> <<<<"g9">>>>],
      [selected_service_uids |-> <<<<"s1", "u2", "s2">>>>] }

\* Two accounts with saved preferences.
InitPreferences ==
    /\ InitRequesters
    /\ InitRecommending
    /\ InitStore(Stores(<<ColumnItems[1]>>))
    /\ users = RegisteredUsers
    /\ user_settings = [u \in RegisteredUids |-> DefaultSettings]
    /\ user_default_streaming_services = {<<"u1", "s2">>}
    /\ user_default_genres = {<<"u2", "g1">>}
    /\ user_excluded_genres = {<<"u1", "g1">>, <<"u2", "g2">>}
    /\ user_excluded_streaming_services = {}
    /\ watchlist_entries = {}

NextPreferences ==
    \/ \E r \in Requesters, token \in Tokens, b \in PreferenceBodies :
           PreferencesReceive(r, token, b)
    \/ \E r \in Requesters : PreferencesConnect(r)
    \/ \E r \in Requesters : PreferencesBegin(r)
    \/ \E r \in Requesters : PreferencesReplace(r)
    \/ \E r \in Requesters : PreferencesCommit(r)
    \/ \E r \in Requesters : PreferencesStorageError(r)
    \/ \E r \in Requesters : PreferencesRollback(r)
    \/ \E r \in Requesters : PreferencesRollbackFails(r)

SpecPreferences == InitPreferences /\ [][NextPreferences]_vars

\* The recommendations handler and the account handlers side by side, with
\* requests for each of their paths.  A handler's client is a local of its
\* own: one account request at a time is handled beside the recommendations
\* request.
PoolBodies == {EmptyBody, [parental_rating_filter_json |-> "PG-13"]}
PoolRequesters == {"r1"}
PoolPreferenceBodies ==
    { [selected_service_uids |-> <<<<"s1">>>>],
      [selected_service_uids |-> <<<<"s1">>, <<"s1">>>>] }

\* The continuation of a request after the promise it awaits has settled.
Continue(r) ==
    \/ SignupConnect(r) \/ SignupSelect(r) \/ SignupInsertUser(r) \/ SignupInsertSettings(r)
    \/ WatchlistConnect(r) \/ WatchlistSelectContent(r) \/ WatchlistSelectEntry(r)
    \/ WatchlistInsert(r)
    \/ ContentConnect(r) \/ ContentQuery(r)
    \/ PreferencesConnect(r) \/ PreferencesBegin(r) \/ PreferencesReplace(r)
    \/ PreferencesCommit(r) \/ PreferencesRollback(r)

\* The promise a request awaits is rejected.
Fail(r) ==
    \/ AccountStorageError(r) \/ PreferencesStorageError(r) \/ PreferencesRollbackFails(r)

InitPool == InitWatchlist

NextPool ==
    \/ \E b \in PoolBodies : Receive(b, FALSE)
    \/ Connect
    \/ CountQuery
    \/ PageQuery
    \/ StorageError
    \/ \E r \in PoolRequesters, password \in {7, 8} :
           SignupReceive(r, "a@cinecrib.test", password)
    \/ \E r \in PoolRequesters, token \in {"", "u1"}, content_uid \in {0, 1, NumContent + 1} :
           WatchlistReceive(r, token, content_uid)
    \/ \E r \in PoolRequesters, content_uid \in {1, NumContent + 1} :
           ContentReceive(r, "u1", content_uid)
    \/ \E r \in PoolRequesters, token \in {"", "u1"}, b \in PoolPreferenceBodies :
           PreferencesReceive(r, token, b)
    \/ \E r \in PoolRequesters : Continue(r)
    \/ \E r \in PoolRequesters : Fail(r)

SpecPool == InitPool /\ [][NextPool]_vars

SyncBodies ==
    { EmptyBody, [genre_uids |-> <<"g1">>], [excluded_service_uids |-> <<"s1">>],
      [page |-> 1, page_size |-> 1], [parental_rating_filter_json |-> "PG-13"] }

SyncItems == <<RelationItems[1], RelationItems[5], ColumnItems[10]>>

\* Single requests while a re-sync job or an admin writes to the content store.
InitSync == InitHandler /\ InitStore(Stores(RelationItems))

NextSync ==
    \/ \E b \in SyncBodies : Receive(b, FALSE)
    \/ Connect
    \/ CountQuery
    \/ PageQuery
    \/ StorageError
    \/ \E u \in ContentUids, k \in DOMAIN SyncItems : Resync(u, SyncItems[k])

SpecSync == InitSync /\ [][NextSync]_vars

----------------------------------------------------------------------------
(* What the claims speak of *)

Range(seq) == {seq[i] : i \in DOMAIN seq}

\* The responses with status 200 the caller holds.
Successes == {i \in DOMAIN log : log[i].status = 200}

ReturnedUids(r) == {r.recommendations[k].uid : k \in DOMAIN r.recommendations}

IncludedGenres(b) == IF HasItems(b, "genre_uids") THEN Range(b.genre_uids) ELSE {}
IncludedServices(b) ==
    IF HasItems(b, "streaming_service_uids") THEN Range(b.streaming_service_uids) ELSE {}
ExcludedGenres(b) == Range(excluded_genre_uids(b))
ExcludedServices(b) == Range(excluded_service_uids(b))
ServicesOf(u) == {a.service_uid : a \in AvailabilityOf(u)}

\* The filter criteria as stated for a content item as a whole.  The release
\* year criterion is taken as active when the handler applies it (both bounds
\* non-zero).
SatisfiesColumns(u, b) ==
    LET c == content[u]
        bucket == preferred_duration_category(b)
        allowed == JSONParse(parental_rating_filter_json(b)).value
    IN  /\ preferred_content_type(b) \in {"both", c.content_type}
        /\ (min_release_year(b) # 0 /\ max_release_year(b) # 0) =>
              \E y \in c.release_year : min_release_year(b) <= y /\ y <= max_release_year(b)
        /\ min_rating(b) > 0 =>
              \/ \E x \in c.imdb_rating : x >= min_rating(b)
              \/ \E x \in c.rotten_tomatoes_score : x * 10 >= min_rating(b)
        /\ allowed # <<>> => c.parental_rating \in Range(allowed)
        /\ bucket = "short" =>
              \/ c.content_type = "movie" /\ \E d \in c.duration_minutes : d < 60
              \/ c.content_type = "tv_show" /\ c.number_of_seasons = {1}
        /\ bucket = "medium" =>
              \/ c.content_type = "movie" /\ \E d \in c.duration_minutes : d \in 60..120
              \/ c.content_type = "tv_show" /\ \E n \in c.number_of_seasons : n \in 2..4
        /\ bucket = "long" =>
              \/ c.content_type = "movie" /\ \E d \in c.duration_minutes : d > 120
              \/ c.content_type = "tv_show" /\ \E n \in c.number_of_seasons : n > 4

SatisfiesGenres(u, b) ==
    /\ IncludedGenres(b) # {} => GenresOf(u) \cap IncludedGenres(b) # {}
    /\ GenresOf(u) \cap ExcludedGenres(b) = {}

SatisfiesServices(u, b) ==
    /\ IncludedServices(b) # {} => ServicesOf(u) \cap IncludedServices(b) # {}
    /\ ServicesOf(u) \cap ExcludedServices(b) = {}

Satisfies(u, b) == SatisfiesColumns(u, b) /\ SatisfiesGenres(u, b) /\ SatisfiesServices(u, b)

\* A request the filter validation would accept.
ValidRequest(b) ==
    /\ page(b) >= 1
    /\ page_size(b) \in 1..100
    /\ min_release_year(b) <= max_release_year(b)
    /\ ~JSONParse(parental_rating_filter_json(b)).threw

\* Both queries of the response ran on the same state of the content tables.
OneSnapshot(r) == r.counted.at = r.grouped.at /\ r.grouped.at = writes

----------------------------------------------------------------------------
(* C1: for every valid request and every content store, total_results is    *)
(* the number of distinct content items that satisfy all active filter      *)
(* criteria.  The handler counts joined rows instead: an item one of whose  *)
(* genre rows is not excluded is counted although it has an excluded genre. *)
C1_TotalResultsCountsSatisfyingItems ==
    \A i \in Successes :
        ValidRequest(log[i].body) /\ OneSnapshot(log[i]) =>
            log[i].total_results =
                Cardinality({u \in DOMAIN content : Satisfies(u, log[i].body)})

(* C2: on a fixed store and for a fixed filter, pages 1..ceil(total_results  *)
(* / page_size) hold every matching uid exactly once: no uid on two pages,  *)
(* none missing, also when matching items are equal in both ratings.  (The  *)
(* log holds responses of one search: same filter, same page_size.)         *)
C2_PagesPartitionMatches ==
    LET pageCount(r) == (r.total_results + r.page_size - 1) \div r.page_size
        lastPage == IF Successes = {} THEN 0
                    ELSE pageCount(log[CHOOSE i \in Successes : TRUE])
        returned == UNION {ReturnedUids(log[i]) : i \in Successes}
    IN  /\ \A i, j \in Successes :
               log[i].page # log[j].page =>
                   ReturnedUids(log[i]) \cap ReturnedUids(log[j]) = {}
        /\ (\A n \in 1..lastPage : \E i \in Successes : log[i].page = n) =>
               \A i \in Successes : log[i].grouped.uids \subseteq returned

(* C3: within one request the count query and the page query share joins,   *)
(* WHERE predicates and bound filter values: on one store state the number  *)
(* of items the page query groups before LIMIT/OFFSET equals total_results. *)
C3_CountQueryAgreesWithPageQuery ==
    \A i \in Successes :
        log[i].counted.at = log[i].grouped.at =>
            /\ log[i].total_results = Cardinality(log[i].grouped.uids)
            /\ log[i].counted.uids = log[i].grouped.uids

\* A response to a request with three predicates, one of them an exclusion,
\* that matched one of the two items.
C3_Witness ==
    \E i \in Successes :
        /\ Len(CountWhere(log[i].body)) >= 3
        /\ ExcludedServices(log[i].body) # {}
        /\ log[i].total_results = 1
        /\ Len(log[i].recommendations) = 1

(* C4: when a write to the content store falls between the count query and *)
(* the page query of one request, total_results and the returned page still *)
(* describe one store state: a page that holds every item the page query    *)
(* matched holds total_results items.                                       *)
C4_CountAndPageDescribeOneState ==
    \A i \in Successes :
        (log[i].page = 1 /\ log[i].page_size >= NumContent) =>
            log[i].total_results = Len(log[i].recommendations)

(* C5: two requests with identical filter, page and page_size and no write  *)
(* between them return the same total_results and the same recommendations  *)
(* in the same order.                                                       *)
C5_IdenticalRequestsSameResponse ==
    \A i, j \in Successes :
        log[i].body = log[j].body =>
            /\ log[i].total_results = log[j].total_results
            /\ log[i].recommendations = log[j].recommendations

(* C6: with excluded_genre_uids non-empty, no item that has a genre in      *)
(* excluded_genre_uids is returned or counted, whatever its other genres.   *)
C6_ExcludedGenreNeverReturned ==
    \A i \in Successes :
        OneSnapshot(log[i]) =>
            \A u \in ReturnedUids(log[i]) \cup log[i].counted.uids :
                GenresOf(u) \cap ExcludedGenres(log[i].body) = {}

(* C7: with excluded_service_uids non-empty, no item available on an        *)
(* excluded service is returned or counted, whatever its other services.    *)
C7_ExcludedServiceNeverReturned ==
    \A i \in Successes :
        OneSnapshot(log[i]) =>
            \A u \in ReturnedUids(log[i]) \cup log[i].counted.uids :
                ServicesOf(u) \cap ExcludedServices(log[i].body) = {}

(* C8: an item without content_genres rows (or without availability rows)   *)
(* is counted, and returned by a page that holds every match, when no       *)
(* inclusion filter is set on that relation and it satisfies the other      *)
(* criteria.                                                                *)
C8_ItemsWithoutRowsStillAppear ==
    \A i \in Successes :
        LET r == log[i]
            b == r.body
            appears(u) == /\ u \in r.counted.uids
                          /\ (page(b) = 1 /\ page_size(b) >= NumContent)
                                 => u \in ReturnedUids(r)
        IN  OneSnapshot(r) =>
                \A u \in DOMAIN content :
                    /\ ( /\ GenresOf(u) = {}
                         /\ IncludedGenres(b) = {}
                         /\ SatisfiesColumns(u, b)
                         /\ SatisfiesServices(u, b) ) => appears(u)
                    /\ ( /\ AvailabilityOf(u) = {}
                         /\ IncludedServices(b) = {}
                         /\ SatisfiesColumns(u, b)
                         /\ SatisfiesGenres(u, b) ) => appears(u)

(* C9: with genre_uids (resp. streaming_service_uids) non-empty, an item is *)
(* returned or counted only if it has a genre (resp. an availability row    *)
(* for a service) in that set; an item with no such rows never is.          *)
C9_InclusionNeedsMembership ==
    \A i \in Successes :
        OneSnapshot(log[i]) =>
            \A u \in ReturnedUids(log[i]) \cup log[i].counted.uids :
                /\ IncludedGenres(log[i].body) # {} =>
                       GenresOf(u) \cap IncludedGenres(log[i].body) # {}
                /\ IncludedServices(log[i].body) # {} =>
                       ServicesOf(u) \cap IncludedServices(log[i].body) # {}

\* A response to a request with both inclusion filters that returned an item,
\* the store holding an item with no genre rows and no availability rows.
C9_Witness ==
    \E i \in Successes :
        /\ IncludedGenres(log[i].body) # {}
        /\ IncludedServices(log[i].body) # {}
        /\ Len(log[i].recommendations) = 1
        /\ \E u \in DOMAIN content : GenresOf(u) = {} /\ AvailabilityOf(u) = {}

(* C10: a request with page_size outside [1,100], page < 1 or               *)
(* min_release_year > max_release_year is rejected with a validation error  *)
(* (4xx) before any query is executed.                                      *)
C10_InvalidRequestRejected ==
    \A i \in DOMAIN log :
        ( \/ page_size(log[i].body) \notin 1..100
          \/ page(log[i].body) < 1
          \/ min_release_year(log[i].body) > max_release_year(log[i].body) )
        => log[i].status \in 400..499 /\ log[i].queries = 0

(* C11: a request whose count query or page query fails is answered with an *)
(* error (success false, status 5xx) that carries neither recommendations   *)
(* nor total_results; a success is answered only after both queries         *)
(* succeeded; a failed query is not sent again: after a failed count query  *)
(* one query was sent, after a failed page query two.                       *)
C11_FailedQueryAnswersErrorOnly ==
    \A i \in DOMAIN log :
        LET r == log[i]
        IN  /\ r.failed \in {"count", "page"} =>
                   /\ r.success = FALSE
                   /\ r.status \in 500..599
                   /\ {"recommendations", "total_results"} \cap DOMAIN r = {}
                   /\ r.queries = IF r.failed = "count" THEN 1 ELSE 2
            /\ r.success = TRUE =>
                   /\ r.failed = "none"
                   /\ r.queries = 2
                   /\ {"recommendations", "total_results"} \subseteq DOMAIN r

\* The caller holds the answers to two requests of one search: the page query
\* of the first succeeded, that of the second failed after its count query had
\* found matches.
C11_Witness ==
    /\ Len(log) = 2
    /\ log[1].success = TRUE /\ log[1].total_results > 0
    /\ log[2].failed = "page"
    /\ page_size(log[2].body) >= 1

(* C12: a request for a page beyond the last one (offset >= total_results)  *)
(* succeeds with empty recommendations and the total_results that page 1 of *)
(* the same search on the same store reports; a search without matches      *)
(* succeeds with total_results = 0.  (The log holds responses of one search *)
(* on one store; the page query of such a request is not rejected.)         *)
C12_PageBeyondLastIsEmpty ==
    /\ \A i \in Successes :
           offset(log[i].body) >= log[i].total_results =>
               log[i].recommendations = <<>>
    /\ \A i, j \in Successes :
           page(log[j].body) = 1 => log[i].total_results = log[j].total_results
    /\ \A i \in Successes :
           log[i].counted.uids = {} => log[i].total_results = 0
    /\ (pc = "page" /\ page(body) >= 1 /\ page_size(body) >= 1) => ~PageQueryFails(body)

\* The caller holds page 1 with an item on it and a page beyond the last one
\* of the same search.
C12_Witness ==
    \E i, j \in Successes :
        /\ page(log[i].body) = 1
        /\ log[i].recommendations # <<>>
        /\ offset(log[j].body) >= log[j].total_results
        /\ log[j].total_results >= 1

\* A search without matches was answered 200.
C12_NoMatchWitness ==
    \E i \in Successes : log[i].total_results = 0 /\ min_rating(log[i].body) > 0

\* The criteria a request activates and the sizes of its sets.
Criteria(b) ==
    [content_type |-> preferred_content_type(b) # "both",
     release_year |-> min_release_year(b) # 0 /\ max_release_year(b) # 0,
     min_rating |-> min_rating(b) > 0,
     parental_ratings |-> Len(JSONParse(parental_rating_filter_json(b)).value),
     duration |-> IF preferred_duration_category(b) \in {"short", "medium", "long"}
                  THEN preferred_duration_category(b) ELSE "any",
     genres |-> Cardinality(DOMAIN Field(b, "genre_uids", <<>>)),
     excluded_genres |-> Len(excluded_genre_uids(b)),
     services |-> Cardinality(DOMAIN Field(b, "streaming_service_uids", <<>>)),
     excluded_services |-> Len(excluded_service_uids(b))]

(* C13: every caller-supplied value reaches the database as a bound         *)
(* parameter only: the request whose queries are being sent and any other   *)
(* request that activates the same criteria with sets of the same sizes,    *)
(* whatever its values, page and page_size, give character-identical SQL    *)
(* text for the count query and for the page query.                         *)
C13_ValuesOnlyAsBoundParameters ==
    pc \in {"count", "page"} =>
        \A other \in Bodies :
            (~Filters(other).threw /\ Criteria(other) = Criteria(body)) =>
                /\ CountQueryText(other) = CountQueryText(body)
                /\ PageQueryText(other) = PageQueryText(body)

\* The count query of a request with three criteria was sent, and another
\* request activates the same criteria with other values.
C13_Witness ==
    /\ pc = "page"
    /\ Len(CountWhere(body)) >= 3
    /\ \E other \in Bodies :
           /\ Criteria(other) = Criteria(body)
           /\ CountParams(other) # CountParams(body)

(* C14: a request whose genre_uids and excluded_genre_uids both hold the    *)
(* same single genre is answered total_results = 0 and empty                *)
(* recommendations, whatever the store holds.                               *)
C14_SameGenreIncludedAndExcluded ==
    \A i \in Successes :
        LET b == log[i].body
        IN  ( /\ HasItems(b, "genre_uids")
              /\ Len(b.genre_uids) = 1
              /\ excluded_genre_uids(b) = b.genre_uids ) =>
                /\ log[i].total_results = 0
                /\ log[i].recommendations = <<>>

\* Such a request was answered on a store with an item that has the genre and
\* an item that has it among others.
C14_Witness ==
    \E i \in Successes :
        /\ HasItems(log[i].body, "genre_uids")
        /\ Len(log[i].body.genre_uids) = 1
        /\ excluded_genre_uids(log[i].body) = log[i].body.genre_uids
        /\ \E u, v \in DOMAIN content :
               /\ GenresOf(u) = Range(log[i].body.genre_uids)
               /\ GenresOf(u) \subseteq GenresOf(v) /\ GenresOf(v) # GenresOf(u)

(* C15: when every availability row of the store is for service X, a request *)
(* with excluded_service_uids = [X] and no other restriction is answered    *)
(* total_results = 0 and empty recommendations.                             *)
C15_OnlyServiceExcluded ==
    \A i \in Successes :
        LET b == log[i].body
        IN  ( /\ DOMAIN b = {"excluded_service_uids"}
              /\ Len(b.excluded_service_uids) = 1
              /\ \A a \in content_streaming_availability :
                     a.service_uid = b.excluded_service_uids[1] ) =>
                /\ log[i].total_results = 0
                /\ log[i].recommendations = <<>>

\* Such a request was answered on a store with an item available on X only and
\* an item without availability rows.
C15_Witness ==
    \E i \in Successes :
        /\ DOMAIN log[i].body = {"excluded_service_uids"}
        /\ Len(log[i].body.excluded_service_uids) = 1
        /\ \A a \in content_streaming_availability :
               a.service_uid = log[i].body.excluded_service_uids[1]
        /\ \E u, v \in DOMAIN content : AvailabilityOf(u) # {} /\ AvailabilityOf(v) = {}

(* C16: the criteria are combined with AND: with preferred_content_type     *)
(* 'movie' or 'tv_show' every returned or counted item has exactly that     *)
(* content_type whatever the other criteria are, and it satisfies the other *)
(* column criteria and the inclusion criteria as well; an item of the other *)
(* content type that satisfies the rating and genre criteria is not         *)
(* returned.                                                                *)
C16_CriteriaAreConjunctive ==
    \A i \in Successes :
        LET b == log[i].body
        IN  \A u \in ReturnedUids(log[i]) \cup log[i].counted.uids :
                /\ preferred_content_type(b) \in {"movie", "tv_show"} =>
                       content[u].content_type = preferred_content_type(b)
                /\ SatisfiesColumns(u, b)
                /\ IncludedGenres(b) # {} => GenresOf(u) \cap IncludedGenres(b) # {}
                /\ IncludedServices(b) # {} => ServicesOf(u) \cap IncludedServices(b) # {}

\* Scenario A: movies of a genre with a minimum rating were asked for; the
\* store holds a movie and a TV show of that genre that both reach the rating,
\* and the movie alone was returned.
C16_Witness ==
    \E i \in Successes :
        LET b == log[i].body
        IN  /\ preferred_content_type(b) = "movie"
            /\ min_rating(b) > 0
            /\ IncludedGenres(b) # {}
            /\ log[i].total_results = 1
            /\ \E u, v \in DOMAIN content :
                   /\ ReturnedUids(log[i]) = {u}
                   /\ content[v].content_type = "tv_show"
                   /\ \E x \in content[v].imdb_rating : x >= min_rating(b)
                   /\ GenresOf(v) \cap IncludedGenres(b) # {}

(* C17: with min_rating r > 0 an item is returned or counted only if its    *)
(* imdb_rating >= r or its rotten_tomatoes_score >= r, so an item with both *)
(* ratings absent never is; with min_rating 0 there is no rating            *)
(* restriction: a request that sets nothing else counts every item whose    *)
(* release year lies in the default range, rated or not.  (Ratings and r    *)
(* are in tenths, rotten_tomatoes_score in units.)                          *)
C17_MinRatingOnEitherScore ==
    \A i \in Successes :
        LET b == log[i].body
        IN  /\ min_rating(b) > 0 =>
                   \A u \in ReturnedUids(log[i]) \cup log[i].counted.uids :
                       \/ \E x \in content[u].imdb_rating : x >= min_rating(b)
                       \/ \E x \in content[u].rotten_tomatoes_score : x * 10 >= min_rating(b)
            /\ (min_rating(b) = 0 /\ DOMAIN b \subseteq {"min_rating"}) =>
                   \A u \in DOMAIN content :
                       (\E y \in content[u].release_year :
                            DefaultMinReleaseYear <= y /\ y <= CurrentYear)
                       => u \in log[i].counted.uids

\* A request with a minimum rating returned one item that reaches it on
\* imdb_rating alone; the other item of the store has no rating at all.
C17_Witness ==
    \E i \in Successes :
        /\ min_rating(log[i].body) > 0
        /\ \E u, v \in DOMAIN content :
               /\ ReturnedUids(log[i]) = {u}
               /\ \E x \in content[u].rotten_tomatoes_score : x * 10 < min_rating(log[i].body)
               /\ content[v].imdb_rating = {} /\ content[v].rotten_tomatoes_score = {}

\* A request that sent min_rating 0 counted an item without any rating.
C17_UnratedWitness ==
    \E i \in Successes :
        /\ "min_rating" \in DOMAIN log[i].body
        /\ min_rating(log[i].body) = 0
        /\ \E u \in log[i].counted.uids :
               content[u].imdb_rating = {} /\ content[u].rotten_tomatoes_score = {}

\* The duration categories as stated, for a content row c.
InCategory(c, category) ==
    LET movie == c.content_type = "movie"
        tv_show == c.content_type = "tv_show"
    IN  CASE category = "short" ->
                \/ movie /\ \E d \in c.duration_minutes : d < 60
                \/ tv_show /\ \E n \in c.number_of_seasons : n = 1
          [] category = "medium" ->
                \/ movie /\ \E d \in c.duration_minutes : d \in 60..120
                \/ tv_show /\ \E n \in c.number_of_seasons : n \in 2..4
          [] category = "long" ->
                \/ movie /\ \E d \in c.duration_minutes : d > 120
                \/ tv_show /\ \E n \in c.number_of_seasons : n > 4

(* C18: with preferred_duration_category 'short', 'medium' or 'long' an     *)
(* item is returned or counted only if it is a movie with duration_minutes  *)
(* < 60 / in [60,120] / > 120 or a tv_show with number_of_seasons = 1 / in  *)
(* [2,4] / > 4, and a request that sets nothing else counts exactly the     *)
(* items of the category whose release year lies in the default range; an   *)
(* item whose duration_minutes (movie) or number_of_seasons (tv_show) is    *)
(* absent is in no category.                                                *)
C18_DurationCategories ==
    \A i \in Successes :
        LET b == log[i].body
            category == preferred_duration_category(b)
        IN  category \in {"short", "medium", "long"} =>
                /\ \A u \in ReturnedUids(log[i]) \cup log[i].counted.uids :
                       InCategory(content[u], category)
                /\ DOMAIN b = {"preferred_duration_category"} =>
                       log[i].counted.uids =
                           {u \in DOMAIN content :
                               /\ InCategory(content[u], category)
                               /\ \E y \in content[u].release_year :
                                      DefaultMinReleaseYear <= y /\ y <= CurrentYear}

\* 'medium' was asked for on a store with a movie of 120 minutes and a TV show
\* without number_of_seasons: the movie alone was returned.
C18_Witness ==
    \E i \in Successes :
        /\ log[i].body = [preferred_duration_category |-> "medium"]
        /\ \E u, v \in DOMAIN content :
               /\ ReturnedUids(log[i]) = {u}
               /\ content[u].duration_minutes = {120}
               /\ content[v].content_type = "tv_show"
               /\ content[v].number_of_seasons = {}

(* C19: the release-year predicate is applied to every request: each        *)
(* returned or counted item has a release_year within [min_release_year,    *)
(* max_release_year] inclusive (defaults 1900 and the current year), for    *)
(* every caller-supplied integer bound, 0 included.  The handler skips the  *)
(* predicate when a bound is 0.                                             *)
C19_ReleaseYearAlwaysApplied ==
    \A i \in Successes :
        \A u \in ReturnedUids(log[i]) \cup log[i].counted.uids :
            \E y \in content[u].release_year :
                /\ min_release_year(log[i].body) <= y
                /\ y <= max_release_year(log[i].body)

\* The same for requests both of whose bounds are non-zero.
C19_ReleaseYearAppliedToNonZeroBounds ==
    \A i \in Successes :
        (min_release_year(log[i].body) # 0 /\ max_release_year(log[i].body) # 0) =>
            \A u \in ReturnedUids(log[i]) \cup log[i].counted.uids :
                \E y \in content[u].release_year :
                    /\ min_release_year(log[i].body) <= y
                    /\ y <= max_release_year(log[i].body)

\* A request with bounds 0 and 1999 returned an item released in 2000.
C19_ZeroBoundReturnsLaterItem ==
    \E i \in Successes :
        /\ min_release_year(log[i].body) = 0
        /\ max_release_year(log[i].body) = 1999
        /\ \E u \in ReturnedUids(log[i]) : content[u].release_year = {2000}

\* The places of the result list the caller has seen: response i, item k on
\* its page, at place offset + k of the sorted result.
Places ==
    {p \in Successes \X (1..NumContent) : p[2] <= Len(log[p[1]].recommendations)}
PlaceOf(p) == offset(log[p[1]].body) + p[2]
ItemAt(p) == content[log[p[1]].recommendations[p[2]].uid]

\* Score x is not lower than score y; an absent score is the lowest.
NotLower(x, y) == y = {} \/ \E v \in x, w \in y : v >= w

(* C20: within a page and across the pages of one search on a fixed store,  *)
(* items appear in non-increasing rotten_tomatoes_score, and items with     *)
(* equal rotten_tomatoes_score in non-increasing imdb_rating.  The handler  *)
(* lists items without a score before all others.                           *)
C20_ItemsInNonIncreasingScore ==
    \A p, q \in Places :
        PlaceOf(p) < PlaceOf(q) =>
            /\ NotLower(ItemAt(p).rotten_tomatoes_score, ItemAt(q).rotten_tomatoes_score)
            /\ ItemAt(p).rotten_tomatoes_score = ItemAt(q).rotten_tomatoes_score =>
                   NotLower(ItemAt(p).imdb_rating, ItemAt(q).imdb_rating)

\* The same for the items that have the score compared.
C20_ScoredItemsInNonIncreasingScore ==
    \A p, q \in Places :
        LET a == ItemAt(p)
            b == ItemAt(q)
        IN  PlaceOf(p) < PlaceOf(q) =>
                /\ (a.rotten_tomatoes_score # {} /\ b.rotten_tomatoes_score # {}) =>
                       NotLower(a.rotten_tomatoes_score, b.rotten_tomatoes_score)
                /\ ( /\ a.rotten_tomatoes_score = b.rotten_tomatoes_score
                     /\ a.imdb_rating # {} /\ b.imdb_rating # {} ) =>
                       NotLower(a.imdb_rating, b.imdb_rating)

\* The caller holds two pages of one search: an item with score 80 on the
\* first, one with a lower score on the second.
C20_AcrossPagesWitness ==
    \E p, q \in Places :
        /\ p[1] # q[1]
        /\ PlaceOf(p) < PlaceOf(q)
        /\ ItemAt(p).rotten_tomatoes_score = {80}
        /\ \E w \in ItemAt(q).rotten_tomatoes_score : w < 80

Max(x, y) == IF x >= y THEN x ELSE y

(* C21: for page >= 1 and page_size >= 1 the returned recommendations are   *)
(* exactly the items at positions (page-1)*page_size .. (page-1)*page_size  *)
(* + page_size - 1 (counted from 0) of a sorted list of the matching items: *)
(* the page holds min(page_size, max(0, total_results - (page-1)*page_size)) *)
(* items and never more than page_size.                                     *)
C21_PageIsSliceOfSortedMatches ==
    \A i \in Successes :
        LET b == log[i].body
            recs == log[i].recommendations
            first == (page(b) - 1) * page_size(b)
        IN  (page(b) >= 1 /\ page_size(b) >= 1) =>
                /\ Len(recs) = Min(page_size(b), Max(0, log[i].total_results - first))
                /\ Len(recs) <= page_size(b)
                /\ \E sorted \in Orderings(Grouped(b)) :
                       \A k \in 1..Len(sorted) :
                           (first < k /\ k <= first + page_size(b)) <=>
                               (k - first \in DOMAIN recs /\ recs[k - first] = sorted[k])

\* Page 2 of size 1 of a search with two matches of different scores was
\* returned: it holds the second item of the sorted list alone.
C21_Witness ==
    \E i \in Successes :
        /\ page(log[i].body) = 2
        /\ page_size(log[i].body) = 1
        /\ log[i].total_results = 2
        /\ Len(log[i].recommendations) = 1
        /\ \E u \in log[i].grouped.uids : SortsBefore(u, log[i].recommendations[1].uid)

(* C22: each content uid appears at most once in a returned page, and in    *)
(* each returned item the genres array holds no genre twice and the         *)
(* available_on_services array no (service, watch_link) pair twice,         *)
(* although the joined rows of an item are the product of its genre rows    *)
(* and its availability rows.                                               *)
C22_NoDuplicatesInPage ==
    \A i \in Successes :
        LET recs == log[i].recommendations
        IN  /\ \A k, l \in DOMAIN recs : k # l => recs[k].uid # recs[l].uid
            /\ \A k \in DOMAIN recs :
                   /\ \A g \in DOMAIN recs[k].genres : recs[k].genres[g] = 1
                   /\ \A s \in DOMAIN recs[k].available_on_services :
                          recs[k].available_on_services[s] = 1

\* Two items were returned, one of them with two genres and two services
\* (four joined rows).
C22_Witness ==
    \E i \in Successes :
        /\ Len(log[i].recommendations) = 2
        /\ \E k \in DOMAIN log[i].recommendations :
               /\ Cardinality(DOMAIN log[i].recommendations[k].genres) = 2
               /\ Cardinality(DOMAIN log[i].recommendations[k].available_on_services) = 2

\* The genres and the services that pass the genre and service predicates of b.
PassingGenres(b) ==
    {g \in GenreUids : (IncludedGenres(b) # {} => g \in IncludedGenres(b))
                        /\ g \notin ExcludedGenres(b)}
PassingServices(b) ==
    {s \in ServiceUids : (IncludedServices(b) # {} => s \in IncludedServices(b))
                          /\ s \notin ExcludedServices(b)}

KindField(c) ==
    IF c.content_type = "movie" THEN c.duration_minutes ELSE c.number_of_seasons

\* The other two duration categories, as requests.
OtherCategories(category) ==
    {[preferred_duration_category |-> d] : d \in {"short", "medium", "long"} \ {category}}

\* Item u, not counted by the answered request for one category, is counted
\* for exactly one of the other two; counted, for none of them.
InOneCategory(u, r) ==
    LET others == {o \in OtherCategories(preferred_duration_category(r.body)) :
                      u \in CountedUids(o)}
    IN  Cardinality(others) = IF u \in r.counted.uids THEN 0 ELSE 1

(* C27: every content item whose duration field of its kind is a non-null   *)
(* integer >= 0 matches exactly one of 'short', 'medium' and 'long'.  A     *)
(* tv_show with number_of_seasons 0 matches none of them.                   *)
C27_CategoriesPartitionFromZero ==
    \A i \in Successes :
        DOMAIN log[i].body = {"preferred_duration_category"}
        /\ preferred_duration_category(log[i].body) \in {"short", "medium", "long"}
        => \A u \in DOMAIN content :
               (\E n \in KindField(content[u]) : n >= 0) => InOneCategory(u, log[i])

(* C27 as amended: every movie with duration_minutes >= 0 and every tv_show *)
(* with number_of_seasons >= 1 matches exactly one of 'short', 'medium'     *)
(* and 'long' (release year within the default range).                      *)
C27_CategoriesPartition ==
    \A i \in Successes :
        DOMAIN log[i].body = {"preferred_duration_category"}
        /\ preferred_duration_category(log[i].body) \in {"short", "medium", "long"}
        => \A u \in DOMAIN content :
               (\E n \in KindField(content[u]) :
                    n >= IF content[u].content_type = "movie" THEN 0 ELSE 1)
               => InOneCategory(u, log[i])

\* 'medium' was answered on a store with a movie of 60 minutes, which it
\* counted, and a tv_show of 5 seasons, which it did not.
C27_Witness ==
    \E i \in Successes :
        /\ log[i].body = [preferred_duration_category |-> "medium"]
        /\ \E u \in log[i].counted.uids : content[u].duration_minutes = {60}
        /\ \E v \in DOMAIN content \ log[i].counted.uids :
               content[v].number_of_seasons = {5}

\* The values the handler pushes for the predicate of a clause.
ValuesPushedFor(kind, b) ==
    CASE kind = "content_type" -> <<preferred_content_type(b)>>
      [] kind = "release_year" -> <<min_release_year(b), max_release_year(b)>>
      [] kind = "min_rating" -> <<min_rating(b), min_rating(b)>>
      [] kind = "parental_rating" -> JSONParse(parental_rating_filter_json(b)).value
      [] kind \in {"short", "medium", "long"} -> <<>>
      [] kind = "genre_in" -> b.genre_uids
      [] kind = "genre_not_in" -> excluded_genre_uids(b)
      [] kind = "service_in" -> b.streaming_service_uids
      [] kind = "service_not_in" -> excluded_service_uids(b)

\* The placeholders of all clauses, in the order of the clauses.
RECURSIVE AllPlaceholders(_)
AllPlaceholders(whereClauses) ==
    IF whereClauses = <<>> THEN <<>>
    ELSE Head(whereClauses).at \o AllPlaceholders(Tail(whereClauses))

(* C30: in the SQL of the request whose queries are being sent, the         *)
(* placeholders $k of each predicate are bound to the values pushed for     *)
(* that predicate; the placeholders of the predicates are $1..$n for the n  *)
(* filter parameters, with which alone the count query is executed; the     *)
(* page query is executed with page_size and (page-1)*page_size appended,   *)
(* to which LIMIT $n+1 and OFFSET $n+2 are bound.                           *)
C30_PlaceholdersMatchParameters ==
    pc \in {"count", "page"} =>
        LET clauses == Filters(body).whereClauses
            n == Len(Filters(body).queryParams)
        IN  /\ CountWhere(body) = clauses /\ PageWhere(body) = clauses
            /\ CountParams(body) = Filters(body).queryParams
            /\ AllPlaceholders(clauses) = [k \in 1..n |-> k]
            /\ \A i \in DOMAIN clauses :
                   LET at == clauses[i].at
                       values == ValuesPushedFor(clauses[i].kind, body)
                   IN  /\ Len(at) = Len(values)
                       /\ \A j \in DOMAIN at :
                              /\ at[j] \in DOMAIN CountParams(body)
                              /\ CountParams(body)[at[j]] = values[j]
                              /\ PageParams(body)[at[j]] = values[j]
            /\ Len(PageParams(body)) = n + 2
            /\ Limit(body) = page_size(body)
            /\ Offset(body) = (page(body) - 1) * page_size(body)

\* The queries of a request with four predicates, two of them lists, and a
\* page other than the first are being sent.
C30_Witness ==
    /\ pc = "page"
    /\ Len(CountWhere(body)) >= 4
    /\ HasItems(body, "genre_uids") /\ Len(body.genre_uids) = 2
    /\ Len(excluded_service_uids(body)) = 1
    /\ Len(CountParams(body)) >= 6

\* The same for a request that asks for page 2.
C30_PageWitness == pc = "page" /\ page(body) = 2 /\ Offset(body) > 0

\* No account request is being handled.
Quiet == \A r \in Requesters : request[r] = Idle

\* C28: once the signup requests have been answered, error responses
\* included, every users row has a user_settings row for its uid and no two
\* users share an email.
C28_EveryUserHasSettingsAndOwnEmail ==
    Quiet =>
        /\ \A u \in users : u.uid \in DOMAIN user_settings
        /\ \A u, v \in users : u.email = v.email => u = v

\* C28, the part that holds at every moment: no two users share an email or
\* a uid, and a user_settings row belongs to a users row.
C28_EmailsAreUnique ==
    /\ \A u, v \in users : (u.email = v.email \/ u.uid = v.uid) => u = v
    /\ DOMAIN user_settings \subseteq {u.uid : u \in users}

\* Two signups with one email ran interleaved: one was answered 201, the
\* other 500 from the UNIQUE constraint.
C28_ConcurrentSignupWitness ==
    /\ Quiet
    /\ Cardinality(users) = 1
    /\ {answer[r].status : r \in Requesters} = {201, 500}
    /\ \A u \in users : u.uid \in DOMAIN user_settings

\* C24: a GET /api/v1/content/{content_uid} with a valid bearer token for an
\* existing item is answered with is_on_watchlist, true iff the user has a
\* watchlist entry for the item at that moment.
C24_AuthenticatedLookupTellsWatchlist ==
    [][\A r \in Requesters :
          (/\ request[r].handler = "content"
           /\ answer'[r].handler = "content" /\ answer'[r].status = 200
           /\ answer'[r].authorization \in RegisteredUids)
          => /\ "is_on_watchlist" \in DOMAIN answer'[r].content
             /\ answer'[r].content.is_on_watchlist =
                    (EntriesOf(answer'[r].authorization, answer'[r].content.uid) # {})]_vars

\* C24, what the handler does: no answer of the lookup has is_on_watchlist.
C24_LookupNeverTellsWatchlist ==
    \A r \in Requesters :
        (answer[r].handler = "content" /\ answer[r].status = 200)
        => DOMAIN answer[r].content = {"uid"}

\* A lookup with the token of a user who has the item on the watchlist was
\* answered 200.
C24_OnWatchlistWitness ==
    \E r \in Requesters :
        /\ answer[r].handler = "content" /\ answer[r].status = 200
        /\ answer[r].authorization \in RegisteredUids
        /\ EntriesOf(answer[r].authorization, answer[r].content.uid) # {}

\* C25: the watchlist has at most one entry per user and content item, and
\* a POST /api/v1/users/me/watchlist for an existing item whose INSERT meets
\* an entry of the pair ends with 409 and inserts nothing, one that ends
\* with 201 has inserted one entry.
C25_OneEntryAndCreatedOrConflict ==
    [][/\ \A e, f \in watchlist_entries' :
             (e.user_uid = f.user_uid /\ e.content_uid = f.content_uid) => e = f
       /\ \A r \in Requesters :
             (/\ request[r].handler = "watchlist"
              /\ request[r].pc = "insert_entry"
              /\ request'[r] = Idle)
             => /\ EntriesOf(request[r].user, request[r].content_uid) # {}
                   => (answer'[r].status = 409 /\ UNCHANGED watchlist_entries)
                /\ answer'[r].status = 201
                   => Cardinality(watchlist_entries') = Cardinality(watchlist_entries) + 1]_vars

\* C25, the part that holds: at most one entry per user and content item,
\* and no two entries with one uid.
C25_OneEntryPerPair ==
    \A e, f \in watchlist_entries :
        ((e.user_uid = f.user_uid /\ e.content_uid = f.content_uid) \/ e.uid = f.uid) => e = f

\* Two concurrent additions of one item by one user were both answered.
C25_ConcurrentWitness ==
    /\ Quiet
    /\ \A r \in Requesters : answer[r].handler = "watchlist" /\ answer[r].status \in {201, 500}
    /\ Cardinality(watchlist_entries) = 1

\* The rows of a user in the junction tables.
RowsOf(tables, user_uid) ==
    [j \in 1..Len(JunctionTables) |->
        {row \in tables[JunctionTables[j].table] : row[1] = user_uid}]

\* The rows the body of a preferences update supplies for a user.
SuppliedRows(user_uid, b) ==
    [j \in 1..Len(JunctionTables) |->
        LET list == Field(b, JunctionTables[j].list, <<>>)
        IN  {<<user_uid, Text(list[i])>> : i \in 1..Len(list)}]

\* C23: when a preferences update is answered 200, the user's settings row
\* has the supplied values and each junction table has exactly the supplied
\* uids for the user; when it is answered 500, the user's rows are as
\* before; the rows of other users are as before in both cases.
C23_AllOrNothingForOneUser ==
    [][\A r \in Requesters :
          (request[r].handler = "preferences" /\ request'[r] = Idle)
          => LET u == request[r].user
                 b == request[r].body
             IN  /\ answer'[r].status = 200
                    => /\ user_settings'[u] = SettingsOf(b)
                       /\ RowsOf(Committed', u) = SuppliedRows(u, b)
                 /\ answer'[r].status = 500
                    => /\ user_settings'[u] = user_settings[u]
                       /\ RowsOf(Committed', u) = RowsOf(Committed, u)
                 /\ \A v \in RegisteredUids \ {u} :
                       /\ user_settings'[v] = user_settings[v]
                       /\ RowsOf(Committed', v) = RowsOf(Committed, v)]_vars

\* C23, the part that holds: an update that is answered 500, or not at all,
\* changes no row of any user, and one that is answered 200 has set the
\* user's settings row to the supplied values.
C23_FailedUpdateChangesNothing ==
    [][\A r \in Requesters :
          (request[r].handler = "preferences" /\ request'[r] = Idle)
          => /\ answer'[r].status # 200 => Committed' = Committed
             /\ answer'[r].status = 200
                => user_settings'[request[r].user] = SettingsOf(request[r].body)]_vars

\* An update with a duplicate uid was answered 500 after another one had
\* replaced rows.
C23_RolledBackWitness ==
    \E r, q \in Requesters :
        /\ answer[r].handler = "preferences" /\ answer[r].status = 500
        /\ answer[q].handler = "preferences" /\ answer[q].status = 200
        /\ <<"u1", "g2">> \in user_default_genres

\* The handlers that take clients from the pool.
PoolUsers == Requesters \cup {"recommendations"}

\* A handler is between two requests.
Finished(h) == IF h = "recommendations" THEN pc = "idle" ELSE request[h] = Idle

\* C29: a request that acquired a client from the pool releases it exactly
\* once on every path: no handler releases more than it acquired, and a
\* handler that has ended, with or without response, holds no client.
C29_ClientReleasedExactlyOnce ==
    \A h \in PoolUsers :
        /\ client[h].acquired <= 1
        /\ client[h].released <= client[h].acquired
        /\ Finished(h) => client[h].released = client[h].acquired

\* A preferences update whose ROLLBACK failed has ended without response
\* and has released its client.
C29_Witness ==
    \E r \in Requesters :
        /\ request[r] = Idle
        /\ answer[r] = NoAnswer
        /\ client[r] = [acquired |-> 1, released |-> 1]

\* A request was answered 404 from inside the try block and has released
\* its client, while the recommendations handler holds its own.
C29_EarlyReturnWitness ==
    \E r \in Requesters :
        /\ request[r] = Idle
        /\ answer[r].status = 404
        /\ client[r] = [acquired |-> 1, released |-> 1]
        /\ client["recommendations"] = [acquired |-> 1, released |-> 0]

====
